---- MODULE Spec2Model ----
(***************************************************************************)
(* Model of the yagcl-env source: the decode of a flat set of string       *)
(* key/value pairs into a nested, typed destination (envSourceImpl.parse   *)
(* and its helpers in env.go).                                             *)
(*                                                                         *)
(* Text is a sequence of one-character strings.  A pointer value carries   *)
(* the identity of its allocation (id), so that a reused chain can be told *)
(* from a rebuilt one.                                                     *)
(***************************************************************************)
EXTENDS Integers, Sequences, FiniteSets, TLC

VARIABLES
    scenario,     \* the schema (type) and the inputs a run draws from
    dest,         \* the destination value
    pre,          \* the destination as it was when Parse was called
    env,          \* the key/value set behind lookup
    prefix,       \* envSourceImpl.prefix
    converter,    \* envSourceImpl.keyValueConverter
    phase,        \* "setup" until Parse has run, then "done"
    err,          \* the error Parse returned
    errAt,        \* the field (its path) whose step returned the error
    log,          \* the lookups parse made, in order
    heap,         \* the number of allocations made so far
    source,       \* envSourceImpl: path, bytes, reader, readEnv, must, loadIntoEnv
    dataLoaded,   \* the dataLoaded Parse returned
    called,       \* the source selectors that have been called
    stack         \* the calls of parse that have not returned

vars == <<scenario, dest, pre, env, prefix, converter, phase, err, errAt, log, heap,
          source, dataLoaded, called, stack>>

----------------------------------------------------------------------------
(* Text helpers                                                            *)

LowerChars == <<"a","b","c","d","e","f","g","h","i","j","k","l","m",
                "n","o","p","q","r","s","t","u","v","w","x","y","z">>
UpperChars == <<"A","B","C","D","E","F","G","H","I","J","K","L","M",
                "N","O","P","Q","R","S","T","U","V","W","X","Y","Z">>
DigitChars == <<"0","1","2","3","4","5","6","7","8","9">>

IndexOf(seq, c) == IF \E i \in 1..Len(seq) : seq[i] = c
                   THEN CHOOSE i \in 1..Len(seq) : seq[i] = c
                   ELSE 0

ToUpperChar(c) == IF IndexOf(LowerChars, c) > 0 THEN UpperChars[IndexOf(LowerChars, c)] ELSE c
ToLowerChar(c) == IF IndexOf(UpperChars, c) > 0 THEN LowerChars[IndexOf(UpperChars, c)] ELSE c

\* strings.ToUpper
ToUpper(s) == [i \in 1..Len(s) |-> ToUpperChar(s[i])]

\* The bug a check of the bool texts must notice: the comparison minds the
\* letter case.
EqualFoldExact(s, t) == s = t

\* strings.EqualFold, on the letters of this model's alphabet
EqualFold(s, t) == Len(s) = Len(t) /\ \A i \in 1..Len(s) : ToLowerChar(s[i]) = ToLowerChar(t[i])

RECURSIVE TrimLeft(_, _)
TrimLeft(s, c) == IF s # <<>> /\ Head(s) = c THEN TrimLeft(Tail(s), c) ELSE s

RECURSIVE TrimRight(_, _)
TrimRight(s, c) == IF s # <<>> /\ s[Len(s)] = c THEN TrimRight(SubSeq(s, 1, Len(s) - 1), c) ELSE s

\* strings.Trim(s, "_")
Trim(s, c) == TrimRight(TrimLeft(s, c), c)

----------------------------------------------------------------------------
(* Key derivation                                                          *)

\* The bug a check of the joiner must notice: the operands are not trimmed.
defaultKeyJoinerNoTrim(s1, s2) == IF s1 = <<>> THEN s2 ELSE s1 \o <<"_">> \o s2

defaultKeyJoiner(s1, s2) ==
    IF s1 = <<>> THEN s2
    ELSE Trim(s1, "_") \o <<"_">> \o Trim(s2, "_")

defaultKeyValueConverter(s) == ToUpper(s)

\* The converters a caller can configure: the default, and the identity of
\* Test_Parse_KeyValueConverter.
Converters == {"default", "identity"}
keyValueConverter(c, s) == IF c = "default" THEN defaultKeyValueConverter(s) ELSE s

NoErr == "nil"
ErrExportedFieldMissingKey == "ErrExportedFieldMissingKey"
ErrParseValue == "ErrParseValue"
ErrUnsupportedFieldType == "ErrUnsupportedFieldType"
errEmbeddedStructDetected == "embedded struct detected"

\* yagcl's ParsingCompanion.ExtractFieldKey: the value of the `key` tag.
ExtractFieldKey(structField) == structField.key

\* The bug a check of the key priority must notice: the override tag goes
\* through the converter too.
extractEnvKeyConvertsTag(conv, structField) ==
    IF structField.env # <<>> THEN [key |-> keyValueConverter(conv, structField.env), err |-> NoErr]
    ELSE IF ExtractFieldKey(structField) # <<>>
         THEN [key |-> keyValueConverter(conv, ExtractFieldKey(structField)), err |-> NoErr]
         ELSE [key |-> <<>>, err |-> ErrExportedFieldMissingKey]

extractEnvKey(conv, structField) ==
    IF structField.env # <<>> THEN [key |-> structField.env, err |-> NoErr]
    ELSE IF ExtractFieldKey(structField) # <<>>
         THEN [key |-> keyValueConverter(conv, ExtractFieldKey(structField)), err |-> NoErr]
         ELSE [key |-> <<>>, err |-> ErrExportedFieldMissingKey]

----------------------------------------------------------------------------
(* Types (reflect.Type) and values (reflect.Value)                         *)

\* A type: its kind, its name (for named types), its element type (pointer,
\* slice, array, map; in a one-element sequence), its fields (struct), its
\* key type (map; in a one-element sequence) and its length (array).
Ty(k, name, elem, fields) ==
    [k |-> k, name |-> name, elem |-> elem, fields |-> fields, key |-> <<>>, len |-> 0]

TString == Ty("String", "string", <<>>, <<>>)
TBool == Ty("Bool", "bool", <<>>, <<>>)
TInt == Ty("Int", "int", <<>>, <<>>)
TInt8 == Ty("Int8", "int8", <<>>, <<>>)
TUint8 == Ty("Uint8", "uint8", <<>>, <<>>)
TInt64 == Ty("Int64", "int64", <<>>, <<>>)
TDuration == Ty("Int64", "time.Duration", <<>>, <<>>)
TComplex128 == Ty("Complex128", "complex128", <<>>, <<>>)
TPtr(t) == Ty("Pointer", "", <<t>>, <<>>)
TStruct(name, fields) == Ty("Struct", name, <<>>, fields)
TSlice(t) == Ty("Slice", "", <<t>>, <<>>)
TArray(n, t) == [Ty("Array", "", <<t>>, <<>>) EXCEPT !.len = n]
TMap(key, t) == [Ty("Map", "", <<t>>, <<>>) EXCEPT !.key = <<key>>]

\* A struct field: its name, its `env` and `key` tags (<<>> when absent),
\* whether the parsing companion includes it, and its type.
Field(name, envTag, keyTag, include, type) ==
    [name |-> name, env |-> envTag, key |-> keyTag, include |-> include, type |-> type]

RECURSIVE TPtrN(_, _)
TPtrN(t, n) == IF n = 0 THEN t ELSE TPtr(TPtrN(t, n - 1))

\* The types of the tests that implement encoding.TextUnmarshaler on their
\* pointer: customTextUnmarshableMultifield, customTextUnmarshalable and
\* intCustomUnmarshalable.
TMultifield == TStruct("customTextUnmarshableMultifield",
                       << Field("SetManually", <<>>, <<>>, TRUE, TString),
                          Field("SetOnUnmarshal", <<>>, <<>>, TRUE, TString) >>)
TCustomString == Ty("String", "customTextUnmarshalable", <<>>, <<>>)
TCustomInt == Ty("Int64", "intCustomUnmarshalable", <<>>, <<>>)

IntKinds == {"Int", "Int8", "Int16", "Int32", "Int64"}
UintKinds == {"Uint", "Uint8", "Uint16", "Uint32", "Uint64"}

\* The bug a range check must notice: every integer is parsed as a 64-bit one.
BitSizeAlways64(k) == 64

\* int(fieldType.Size()) * 8
BitSize(k) == CASE k \in {"Int8", "Uint8"} -> 8
                [] k \in {"Int16", "Uint16"} -> 16
                [] k \in {"Int32", "Uint32"} -> 32
                [] OTHER -> 64

\* Values.  A pointer is nil, or holds the identity of its allocation and
\* the value it points to.
VStr(s) == [s |-> s]
VInt(n) == [n |-> n]
VBool(b) == [b |-> b]
VNil == [nil |-> TRUE, id |-> 0, e |-> <<>>]
VPtr(id, v) == [nil |-> FALSE, id |-> id, e |-> <<v>>]
VStruct(fs) == [f |-> fs]
\* A slice is nil or holds its elements; an array holds its elements; a map
\* is nil or holds a function from its keys.
VNilSlice == [nil |-> TRUE, l |-> <<>>]
VSlice(elems) == [nil |-> FALSE, l |-> elems]
VArray(elems) == [l |-> elems]
EmptyEntries == [key \in {} |-> VNil]
VNilMap == [nil |-> TRUE, m |-> EmptyEntries]
VMap(entries) == [nil |-> FALSE, m |-> entries]

\* The zero value of a type: reflect.New(t).Elem()
RECURSIVE Zero(_)
Zero(t) ==
    CASE t.k = "String" -> VStr(<<>>)
      [] t.k = "Bool" -> VBool(FALSE)
      [] t.k \in IntKinds \cup UintKinds -> VInt(0)
      [] t.k = "Pointer" -> VNil
      [] t.k = "Struct" -> VStruct([i \in 1..Len(t.fields) |-> Zero(t.fields[i].type)])
      [] t.k = "Slice" -> VNilSlice
      [] t.k = "Array" -> VArray([i \in 1..t.len |-> Zero(t.elem[1])])
      [] t.k = "Map" -> VNilMap
      [] OTHER -> VInt(0)

\* reflect.Value.IsZero
RECURSIVE IsZero(_, _)
IsZero(t, v) ==
    CASE t.k = "String" -> v.s = <<>>
      [] t.k = "Bool" -> ~v.b
      [] t.k \in IntKinds \cup UintKinds -> v.n = 0
      [] t.k = "Pointer" -> v.nil
      [] t.k = "Struct" -> \A i \in 1..Len(t.fields) : IsZero(t.fields[i].type, v.f[i])
      [] t.k \in {"Slice", "Map"} -> v.nil
      [] t.k = "Array" -> \A i \in 1..t.len : IsZero(t.elem[1], v.l[i])
      [] OTHER -> FALSE

RECURSIVE extractNonPointerFieldType(_)
extractNonPointerFieldType(fieldType) ==
    IF fieldType.k # "Pointer" THEN fieldType
    ELSE extractNonPointerFieldType(fieldType.elem[1])

\* The number of pointer hops of a declared type.
RECURSIVE PointerDepth(_)
PointerDepth(t) == IF t.k # "Pointer" THEN 0 ELSE 1 + PointerDepth(t.elem[1])

----------------------------------------------------------------------------
(* Value parsing                                                           *)

IsDigit(c) == IndexOf(DigitChars, c) > 0
DigitValue(c) == IndexOf(DigitChars, c) - 1

\* The value of a run of decimal digits.
RECURSIVE DigitsValue(_)
DigitsValue(ds) ==
    IF ds = <<>> THEN 0
    ELSE 10 * DigitsValue(SubSeq(ds, 1, Len(ds) - 1)) + DigitValue(ds[Len(ds)])

AllDigits(ds) == ds # <<>> /\ \A i \in 1..Len(ds) : IsDigit(ds[i])

\* A number in decimal digits without leading zeros: <<>> is zero.
RECURSIVE StripZeros(_)
StripZeros(ds) == IF ds # <<>> /\ Head(ds) = "0" THEN StripZeros(Tail(ds)) ELSE ds

\* a < b, for two numbers in decimal digits without leading zeros
RECURSIVE LessDigits(_, _)
LessDigits(a, b) ==
    IF Len(a) # Len(b) THEN Len(a) < Len(b)
    ELSE IF a = <<>> THEN FALSE
    ELSE IF Head(a) # Head(b) THEN DigitValue(Head(a)) < DigitValue(Head(b))
    ELSE LessDigits(Tail(a), Tail(b))

\* k * ds + carry, in decimal digits
RECURSIVE TimesDigits(_, _, _)
TimesDigits(ds, k, carry) ==
    IF Len(ds) = 0
    THEN (IF carry = 0 THEN <<>>
          ELSE Append(TimesDigits(ds, k, carry \div 10), DigitChars[(carry % 10) + 1]))
    ELSE Append(TimesDigits(SubSeq(ds, 1, Len(ds) - 1), k,
                            (k * DigitValue(ds[Len(ds)]) + carry) \div 10),
                DigitChars[((k * DigitValue(ds[Len(ds)]) + carry) % 10) + 1])

\* 2^n, in decimal digits: 2^8 times 2^(n-8), down to the powers below 2^8
RECURSIVE Pow2Digits(_)
Pow2Digits(n) ==
    IF n >= 8 THEN TimesDigits(Pow2Digits(n - 8), 256, 0)
    ELSE TimesDigits(<<"1">>, 2^n, 0)

\* The range check of strconv.ParseInt / ParseUint for a bit size, on the
\* magnitude of the number: -2^(bits-1) .. 2^(bits-1)-1, and 0 .. 2^bits-1.
InIntRange(neg, mag, bits) ==
    LessDigits(mag, Pow2Digits(bits - 1)) \/ (neg /\ mag = Pow2Digits(bits - 1))
InUintRange(mag, bits) == LessDigits(mag, Pow2Digits(bits))

\* strconv.ParseInt(s, 10, bits) on the digits: an optional sign, then
\* decimal digits; the number as its sign and its magnitude.
ParseIntDigits(s, bits) ==
    LET signed == s # <<>> /\ s[1] \in {"+", "-"}
        ds == IF signed THEN Tail(s) ELSE s
        neg == signed /\ s[1] = "-"
    IN IF AllDigits(ds) /\ InIntRange(neg, StripZeros(ds), bits)
       THEN [ok |-> TRUE, neg |-> neg /\ StripZeros(ds) # <<>>, mag |-> StripZeros(ds)]
       ELSE [ok |-> FALSE, neg |-> FALSE, mag |-> <<>>]

\* strconv.ParseUint(s, 10, bits) on the digits: decimal digits, no sign.
ParseUintDigits(s, bits) ==
    IF AllDigits(s) /\ InUintRange(StripZeros(s), bits)
    THEN [ok |-> TRUE, neg |-> FALSE, mag |-> StripZeros(s)]
    ELSE [ok |-> FALSE, neg |-> FALSE, mag |-> <<>>]

\* The number of a parse, as an integer of the model checker: the texts of
\* the fields' values have fewer than ten digits.
NumberOf(r) == IF ~r.ok THEN 0 ELSE IF r.neg THEN -DigitsValue(r.mag) ELSE DigitsValue(r.mag)

ParseInt(s, bits) == [ok |-> ParseIntDigits(s, bits).ok, n |-> NumberOf(ParseIntDigits(s, bits))]
ParseUint(s, bits) == [ok |-> ParseUintDigits(s, bits).ok, n |-> NumberOf(ParseUintDigits(s, bits))]

\* time.ParseDuration.  A time.Duration is held in whole seconds here; the
\* unit table holds the units that are whole seconds.  The texts of this
\* model carry no fraction and no sub-second unit.
UnitSeconds(u) == CASE u = <<"s">> -> 1
                    [] u = <<"m">> -> 60
                    [] u = <<"h">> -> 3600
                    [] OTHER -> 0

RECURSIVE LeadingDigits(_)
LeadingDigits(s) == IF s # <<>> /\ IsDigit(s[1]) THEN 1 + LeadingDigits(Tail(s)) ELSE 0

RECURSIVE LeadingUnit(_)
LeadingUnit(s) == IF s # <<>> /\ ~IsDigit(s[1]) THEN 1 + LeadingUnit(Tail(s)) ELSE 0

\* The segments of a duration text: ([0-9]+[a-z]+)+
RECURSIVE ParseDurationSegments(_)
ParseDurationSegments(s) ==
    IF s = <<>> THEN [ok |-> TRUE, n |-> 0]
    ELSE LET nd == LeadingDigits(s)
             rest == SubSeq(s, nd + 1, Len(s))
             nu == LeadingUnit(rest)
             unit == SubSeq(rest, 1, nu)
             tail == ParseDurationSegments(SubSeq(rest, nu + 1, Len(rest)))
         IN IF nd = 0 \/ nu = 0 \/ UnitSeconds(unit) = 0 \/ ~tail.ok
            THEN [ok |-> FALSE, n |-> 0]
            ELSE [ok |-> TRUE, n |-> DigitsValue(SubSeq(s, 1, nd)) * UnitSeconds(unit) + tail.n]

ParseDuration(s) ==
    LET signed == s # <<>> /\ s[1] \in {"+", "-"}
        body == IF signed THEN Tail(s) ELSE s
        r == ParseDurationSegments(body)
    IN IF body = <<"0">> THEN [ok |-> TRUE, n |-> 0]
       ELSE IF body = <<>> \/ ~r.ok THEN [ok |-> FALSE, n |-> 0]
       ELSE [ok |-> TRUE, n |-> IF signed /\ s[1] = "-" THEN -r.n ELSE r.n]

\* The number of bytes of a character in UTF-8: the texts of this model are
\* ASCII but for one two-byte letter.
TwoByteChar == "é"
Width(c) == IF c = TwoByteChar THEN 2 ELSE 1

\* len(s): the length of a text in bytes
RECURSIVE ByteLen(_)
ByteLen(s) == IF s = <<>> THEN 0 ELSE Width(Head(s)) + ByteLen(Tail(s))

\* The bug a check of the escaping must notice: a backslash is a character
\* like any other.
RECURSIVE splitLoopNoEscape(_, _, _, _, _, _, _)
splitLoopNoEscape(literal, splitChar, i, index, values, buffer, escapeNext) ==
    IF i > Len(literal) THEN values
    ELSE IF index = ByteLen(literal) - 1
    THEN Append(values, IF literal[i] # splitChar THEN Append(buffer, literal[i]) ELSE buffer)
    ELSE IF literal[i] = splitChar
    THEN splitLoopNoEscape(literal, splitChar, i + 1, index + Width(literal[i]),
                           Append(values, buffer), <<>>, FALSE)
    ELSE splitLoopNoEscape(literal, splitChar, i + 1, index + Width(literal[i]),
                           values, Append(buffer, literal[i]), FALSE)

\* The loop of splitString, at the i-th character, which starts at byte
\* `index`: range yields the byte offset of each character, and maxIndex is
\* the offset of the last byte.
RECURSIVE splitLoop(_, _, _, _, _, _, _)
splitLoop(literal, splitChar, i, index, values, buffer, escapeNext) ==
    IF i > Len(literal) THEN values
    ELSE IF index = ByteLen(literal) - 1
    THEN Append(values, IF literal[i] # splitChar \/ escapeNext
                        THEN Append(buffer, literal[i]) ELSE buffer)
    ELSE IF literal[i] = splitChar /\ ~escapeNext
    THEN splitLoop(literal, splitChar, i + 1, index + Width(literal[i]),
                   Append(values, buffer), <<>>, FALSE)
    ELSE IF literal[i] = "\\" /\ ~escapeNext
    THEN splitLoop(literal, splitChar, i + 1, index + Width(literal[i]),
                   values, buffer, TRUE)
    ELSE splitLoop(literal, splitChar, i + 1, index + Width(literal[i]),
                   values, Append(buffer, literal[i]), FALSE)

\* splitString: the segments of a text, cut at the unescaped split
\* characters.
splitString(literal, splitChar) == splitLoop(literal, splitChar, 1, 0, <<>>, <<>>, FALSE)

\* The bug a check of the element types must notice: every element type is
\* taken for a supported one.
isSliceTypeSupportedAlways(sliceType) == TRUE

\* isSliceTypeSupported: the element types a slice or an array may have.
isSliceTypeSupported(sliceType) ==
    extractNonPointerFieldType(sliceType).k
        \notin {"UnsafePointer", "Complex64", "Complex128", "Struct", "Array", "Slice"}

\* The pointers parseIntoArray puts around an element
\* (convertValueToPointerIfRequired); the allocations inside a collection
\* carry no identity.
RECURSIVE ElementChain(_, _)
ElementChain(t, v) == IF t.k # "Pointer" THEN v ELSE VPtr(0, ElementChain(t.elem[1], v))

\* reflect.Value.SetMapIndex
SetMapIndex(entries, key, elem) ==
    [x \in DOMAIN entries \cup {key} |-> IF x = key THEN elem ELSE entries[x]]

\* What Go does with an index out of range, and with a reflect.Value that
\* is not assignable to the type it is stored as: it panics.
Panic == "panic"

RECURSIVE parseValue(_, _)
RECURSIVE parseIntoArray(_, _, _, _)
RECURSIVE parseIntoMap(_, _, _, _)

\* The element i of parseIntoArray's loop has been parsed to p.
parsedIntoArray(fieldType, arrayRawValues, i, targetArray, p) ==
    IF p.err # NoErr THEN [val |-> targetArray, err |-> p.err]
    ELSE parseIntoArray(fieldType, arrayRawValues, i + 1,
                        [targetArray EXCEPT ![i] = ElementChain(fieldType.elem[1], p.val)])

\* parseIntoArray, from its i-th raw value on: the first error ends it.
parseIntoArray(fieldType, arrayRawValues, i, targetArray) ==
    IF i > Len(arrayRawValues) THEN [val |-> targetArray, err |-> NoErr]
    ELSE parsedIntoArray(fieldType, arrayRawValues, i, targetArray,
                         parseValue(fieldType.elem[1], arrayRawValues[i]))

\* The entry of the map loop has been split into keyValue, and its key and
\* value parsed to k and v.
parsedIntoMap(fieldType, rawEntries, i, targetMap, keyValue, k, v) ==
    IF k.err # NoErr THEN [val |-> targetMap, err |-> ErrParseValue]
    ELSE IF v.err # NoErr THEN [val |-> targetMap, err |-> ErrParseValue]
    ELSE IF fieldType.key[1].k = "Pointer" \/ fieldType.elem[1].k = "Pointer"
    THEN [val |-> targetMap, err |-> Panic]
    ELSE parseIntoMap(fieldType, rawEntries, i + 1, SetMapIndex(targetMap, k.val, v.val))

\* The entry i of the map loop has been split into keyValue.
splitIntoMap(fieldType, rawEntries, i, targetMap, keyValue) ==
    IF Len(keyValue) = 1 \/ Len(keyValue) > 2 THEN [val |-> targetMap, err |-> ErrParseValue]
    ELSE IF Len(keyValue) = 0 THEN [val |-> targetMap, err |-> Panic]
    ELSE parsedIntoMap(fieldType, rawEntries, i, targetMap, keyValue,
                       parseValue(fieldType.key[1], keyValue[1]),
                       parseValue(fieldType.elem[1], keyValue[2]))

\* The loop over the entries of a map, from the i-th entry on.
parseIntoMap(fieldType, rawEntries, i, targetMap) ==
    IF i > Len(rawEntries) THEN [val |-> targetMap, err |-> NoErr]
    ELSE splitIntoMap(fieldType, rawEntries, i, targetMap, splitString(rawEntries[i], "="))

\* A collection has been parsed to r.
Collected(r, val) == IF r.err # NoErr THEN [val |-> VInt(0), err |-> r.err]
                     ELSE [val |-> val, err |-> NoErr]
SliceOf(r) == Collected(r, VSlice(r.val))
ArrayOf(r) == Collected(r, VArray(r.val))
MapOf(r) == Collected(r, VMap(r.val))

\* parseValue: the value of the field's base type that the text denotes, or
\* the error; errEmbeddedStructDetected tells the caller to recurse.
parseValue(fieldType, envValue) ==
    CASE fieldType.k = "String" -> [val |-> VStr(envValue), err |-> NoErr]
      [] fieldType.k \in IntKinds /\ fieldType.k = "Int64" /\ fieldType.name = "time.Duration" ->
            LET r == ParseDuration(envValue)
            IN IF r.ok THEN [val |-> VInt(r.n), err |-> NoErr]
               ELSE [val |-> VInt(0), err |-> ErrParseValue]
      [] fieldType.k \in IntKinds /\ ~(fieldType.k = "Int64" /\ fieldType.name = "time.Duration") ->
            LET r == ParseInt(envValue, BitSize(fieldType.k))
            IN IF r.ok THEN [val |-> VInt(r.n), err |-> NoErr]
               ELSE [val |-> VInt(0), err |-> ErrParseValue]
      [] fieldType.k \in UintKinds ->
            LET r == ParseUint(envValue, BitSize(fieldType.k))
            IN IF r.ok THEN [val |-> VInt(r.n), err |-> NoErr]
               ELSE [val |-> VInt(0), err |-> ErrParseValue]
      [] fieldType.k = "Bool" ->
            LET boolValue == EqualFold(envValue, <<"t","r","u","e">>)
            IN IF ~boolValue /\ ~EqualFold(envValue, <<"f","a","l","s","e">>)
               THEN [val |-> VBool(FALSE), err |-> ErrParseValue]
               ELSE [val |-> VBool(boolValue), err |-> NoErr]
      [] fieldType.k = "Struct" -> [val |-> VInt(0), err |-> errEmbeddedStructDetected]
      [] fieldType.k = "Pointer" ->
            IF extractNonPointerFieldType(fieldType).k = "Struct"
            THEN [val |-> VInt(0), err |-> errEmbeddedStructDetected]
            ELSE parseValue(extractNonPointerFieldType(fieldType), envValue)
      [] fieldType.k = "Map" ->
            MapOf(parseIntoMap(fieldType, splitString(envValue, ","), 1, EmptyEntries))
      [] fieldType.k = "Slice" ->
            IF ~isSliceTypeSupported(fieldType.elem[1])
            THEN [val |-> VInt(0), err |-> ErrUnsupportedFieldType]
            ELSE SliceOf(parseIntoArray(fieldType, splitString(envValue, ","), 1,
                    [i \in 1..Len(splitString(envValue, ",")) |-> Zero(fieldType.elem[1])]))
      [] fieldType.k = "Array" ->
            IF ~isSliceTypeSupported(fieldType.elem[1])
            THEN [val |-> VInt(0), err |-> ErrUnsupportedFieldType]
            ELSE IF fieldType.len # Len(splitString(envValue, ","))
            THEN [val |-> VInt(0), err |-> ErrParseValue]
            ELSE ArrayOf(parseIntoArray(fieldType, splitString(envValue, ","), 1,
                    [i \in 1..fieldType.len |-> Zero(fieldType.elem[1])]))
      [] OTHER -> [val |-> VInt(0), err |-> ErrUnsupportedFieldType]

----------------------------------------------------------------------------
(* Pointers and custom decoders                                            *)

\* extractDeepestPotentialPointer: the value itself when it is no pointer;
\* otherwise the first nil pointer of the chain, or the last pointer of the
\* chain (the one that points to the base value).  e is what it points to.
RECURSIVE extractDeepestPotentialPointer(_, _)
extractDeepestPotentialPointer(t, value) ==
    IF t.k = "Pointer"
    THEN IF value.nil \/ t.elem[1].k # "Pointer"
         THEN [k |-> "Pointer", nil |-> value.nil, e |-> value.e]
         ELSE extractDeepestPotentialPointer(t.elem[1], value.e[1])
    ELSE [k |-> t.k, nil |-> FALSE, e |-> <<value>>]

\* A write through the deepest pointer of a fully non-nil chain: the chain
\* and its allocations stay, the base value changes.
RECURSIVE SetDeepestElem(_, _, _)
SetDeepestElem(t, value, base) ==
    IF t.k # "Pointer" THEN base
    ELSE [value EXCEPT !.e = <<SetDeepestElem(t.elem[1], value.e[1], base)>>]

\* n pointers, each a new allocation, around a base value; the outermost is
\* allocated first.
RECURSIVE NewChain(_, _, _)
NewChain(n, id, base) == IF n = 0 THEN base ELSE VPtr(id, NewChain(n - 1, id + 1, base))

\* The bug a check of the pointer depth must notice: one hop, whatever the
\* declared depth is.
convertValueToPointerOneHop(targetType, newValue, h) ==
    IF targetType.k # "Pointer" THEN [val |-> newValue, h |-> h]
    ELSE [val |-> NewChain(1, h + 1, newValue), h |-> h + 1]

\* convertValueToPointerIfRequired: as many new pointers around newValue as
\* the target's declared type has hops.
convertValueToPointerIfRequired(targetType, newValue, h) ==
    IF targetType.k # "Pointer" THEN [val |-> newValue, h |-> h]
    ELSE [val |-> NewChain(PointerDepth(targetType), h + 1, newValue),
          h |-> h + PointerDepth(targetType)]

\* No type has a custom decoder: every field goes to parseValue.
HasTextUnmarshalerNever(t) == FALSE

\* target.Interface().(encoding.TextUnmarshaler), for a target of type *t
HasTextUnmarshaler(t) ==
    t.name \in {"customTextUnmarshableMultifield", "customTextUnmarshalable", "intCustomUnmarshalable"}

\* The UnmarshalText methods of the tests' types, applied to the content the
\* target points to.
UnmarshalText(t, content, data) ==
    CASE t.name = "customTextUnmarshableMultifield" ->
            [val |-> [content EXCEPT !.f[2] = VStr(data)], err |-> NoErr]
      [] t.name = "customTextUnmarshalable" ->
            [val |-> VStr(ToUpper(data)), err |-> NoErr]
      [] OTHER ->
            LET r == ParseInt(data, 64)
            IN IF r.ok THEN [val |-> VInt(r.n), err |-> NoErr]
               ELSE [val |-> content, err |-> "strconv.ParseInt"]

----------------------------------------------------------------------------
(* The struct recursor: envSourceImpl.parse                                *)

\* lookup over the materialized key/value set
lookup(key) == IF key \in DOMAIN env THEN [val |-> env[key], set |-> TRUE]
               ELSE [val |-> <<>>, set |-> FALSE]

\* What a step of parse hands back: the value the field (or struct) holds
\* now, the error and the field that raised it, and the allocation counter
\* and lookup log.
Result(val, e, st) == [val |-> val, err |-> e, at |-> st.at, h |-> st.h, log |-> st.log]

\* The step of the field at path returns the error e.
Failed(val, e, path, st) == [val |-> val, err |-> e, at |-> path, h |-> st.h, log |-> st.log]

\* The bug a check of the skip must notice: every field without a value is
\* handed to the parser.
skipsMissingNever(set, fieldType) == FALSE

\* An absent value ends the field's step, unless the field is a struct or a
\* pointer.
skipsMissing(set, fieldType) ==
    ~set /\ fieldType.k # "Struct" /\ fieldType.k # "Pointer"

\* The bug a check of the defaults must notice: the decoder always gets a
\* new zero instance.
customTargetAlwaysNew(fieldType, value) == Zero(extractNonPointerFieldType(fieldType))

\* The content the custom decoder works on: that of the existing allocation
\* at the end of a non-nil chain, a copy of a non-pointer value, or a new
\* zero instance.
customTarget(fieldType, value) ==
    LET deepestPotentialPointer == extractDeepestPotentialPointer(fieldType, value)
    IN IF deepestPotentialPointer.k = "Pointer"
       THEN IF deepestPotentialPointer.nil
            THEN Zero(extractNonPointerFieldType(fieldType))
            ELSE deepestPotentialPointer.e[1]
       ELSE value

\* The bug a check of the zero rule must notice: a parsed zero is assigned
\* like any other value.
assignParsedAlways(fieldType, value, parsed, st) ==
    LET c == convertValueToPointerIfRequired(fieldType, parsed, st.h)
    IN Result(c.val, NoErr, [st EXCEPT !.h = c.h])

\* The end of a field's step: a parsed zero value leaves the field alone,
\* any other value is wrapped to the declared pointer depth and assigned.
assignParsed(fieldType, value, parsed, st) ==
    IF IsZero(extractNonPointerFieldType(fieldType), parsed)
    THEN Result(value, NoErr, st)
    ELSE LET c == convertValueToPointerIfRequired(fieldType, parsed, st.h)
         IN Result(c.val, NoErr, [st EXCEPT !.h = c.h])

\* The field holds val now, and the step ended with e.
Kept(val, e, r) == [val |-> val, err |-> e, at |-> r.at, h |-> r.h, log |-> r.log]

\* The recursion into a struct reached through a non-nil pointer chain has
\* ended with r: the chain stays, its struct is the one parse worked on.
recursedInPlace(fieldType, value, r) ==
    Kept(SetDeepestElem(fieldType, value, r.val), r.err, r)

\* The recursion into a new struct for a nil pointer chain has ended with r.
recursedIntoNew(fieldType, value, r) ==
    IF r.err # NoErr THEN Kept(value, r.err, r)
    ELSE assignParsed(fieldType, value, r.val, r)

RECURSIVE parse(_, _, _, _, _, _)
RECURSIVE parseField(_, _, _, _, _)
RECURSIVE parseRest(_, _, _, _, _, _)

\* What parse does with a field once its key has been looked up: l is the
\* lookup's answer, st holds the log with this lookup.
parseLookedUp(structField, value, joinedEnvKey, l, path, st) ==
    LET fieldType == structField.type
        underlyingType == extractNonPointerFieldType(fieldType)
    IN
    IF skipsMissing(l.set, fieldType) THEN Result(value, NoErr, st)
    ELSE IF HasTextUnmarshaler(underlyingType)
    THEN LET inPlace == fieldType.k = "Pointer"
                        /\ ~extractDeepestPotentialPointer(fieldType, value).nil
             u == UnmarshalText(underlyingType, customTarget(fieldType, value), l.val)
         IN IF u.err # NoErr
            THEN Failed(IF inPlace THEN SetDeepestElem(fieldType, value, u.val) ELSE value,
                        ErrParseValue, path, st)
            ELSE LET c == convertValueToPointerIfRequired(fieldType, u.val, st.h)
                 IN Result(c.val, NoErr, [st EXCEPT !.h = c.h])
    ELSE
    LET p == parseValue(fieldType, l.val)
    IN
    IF p.err # NoErr /\ p.err # errEmbeddedStructDetected THEN Failed(value, p.err, path, st)
    ELSE IF p.err = NoErr THEN assignParsed(fieldType, value, p.val, st)
    ELSE
    LET deepestPotentialPointer == extractDeepestPotentialPointer(fieldType, value)
    IN
    IF deepestPotentialPointer.k # "Pointer"
    THEN parse(fieldType, value, joinedEnvKey, path, 1, st)
    ELSE IF ~deepestPotentialPointer.nil
    THEN recursedInPlace(fieldType, value,
            parse(underlyingType, deepestPotentialPointer.e[1], joinedEnvKey, path, 1, st))
    ELSE recursedIntoNew(fieldType, value,
            parse(underlyingType, Zero(underlyingType), joinedEnvKey, path, 1, st))

\* An iteration that does not ask the parsing companion whether the field
\* is included.
parseFieldIncludesAll(structField, value, envPrefix, path, st) ==
    LET k == extractEnvKey(converter, structField)
        joinedEnvKey == defaultKeyJoiner(envPrefix, k.key)
        l == lookup(joinedEnvKey)
    IN
    IF k.err # NoErr THEN Failed(value, k.err, path, st)
    ELSE parseLookedUp(structField, value, joinedEnvKey, l, path,
            [st EXCEPT !.log = Append(@, [key |-> joinedEnvKey, path |-> path, set |-> l.set])])

\* One iteration of parse's loop, for the field at `path` (the field's
\* index in each struct from the root down).
parseField(structField, value, envPrefix, path, st) ==
    IF ~structField.include THEN Result(value, NoErr, st)
    ELSE
    LET k == extractEnvKey(converter, structField)
        joinedEnvKey == defaultKeyJoiner(envPrefix, k.key)
        l == lookup(joinedEnvKey)
    IN
    IF k.err # NoErr THEN Failed(value, k.err, path, st)
    ELSE parseLookedUp(structField, value, joinedEnvKey, l, path,
            [st EXCEPT !.log = Append(@, [key |-> joinedEnvKey, path |-> path, set |-> l.set])])

\* r, with the first error of the loop put back.
WithFirstError(first, r) ==
    IF first.err # NoErr THEN [r EXCEPT !.err = first.err, !.at = first.at] ELSE r

\* The bug a check of the fail-fast rule must notice: the loop goes on
\* after an error and reports the first one at its end.
parseRestGoesOn(structType, structValue, envPrefix, path, i, r) ==
    WithFirstError(r,
        parse(structType, [structValue EXCEPT !.f[i] = r.val], envPrefix, path, i + 1, r))

\* The loop goes on after field i, whose step ended with r: the first error
\* ends it.
parseRest(structType, structValue, envPrefix, path, i, r) ==
    IF r.err # NoErr THEN Kept([structValue EXCEPT !.f[i] = r.val], r.err, r)
    ELSE parse(structType, [structValue EXCEPT !.f[i] = r.val], envPrefix, path, i + 1, r)

\* parse, from its i-th field on: the fields in declaration order.
parse(structType, structValue, envPrefix, path, i, st) ==
    IF i > Len(structType.fields) THEN Result(structValue, NoErr, st)
    ELSE parseRest(structType, structValue, envPrefix, path, i,
            parseField(structType.fields[i], structValue.f[i], envPrefix, Append(path, i), st))

----------------------------------------------------------------------------
(* Schemas and inputs                                                      *)

\* The deepest pointer chain a schema declares, and the most entries the
\* key/value set holds.
MaxDepth == 3
MaxEnv == 3

F(keyTag, type) == Field("F", <<>>, keyTag, TRUE, type)

\* Scalar fields, as in Test_Parse_DefaultValue_Int and its neighbours.
ScalarsType == TStruct("configuration",
    << F(<<"i">>, TInt8), F(<<"b">>, TBool), F(<<"s">>, TString), F(<<"d">>, TDuration) >>)
ScalarsDefault == VStruct(<< VInt(5), VBool(TRUE), VStr(<<"d">>), VInt(10) >>)

\* A pointer of depth n to an unsigned integer (Test_Parse_SimplePointer,
\* Test_Parse_DoublePointer, Test_Parse_PointerOfDoom), next to a scalar.
PointerType(n) == TStruct("configuration",
    << F(<<"p">>, TPtrN(TUint8, n)), F(<<"s">>, TString) >>)
PointerDefault(n) == VStruct(<< NewChain(n, 1, VInt(5)), VStr(<<"d">>) >>)

\* Structs nested by value (Test_Parse_Struct_PreserveDefaults), with an
\* integer leaf that can fail to parse (Test_Parse_Struct_Invalid).
DeeperType == TStruct("evenDeeper", << F(<<"f">>, TString), F(<<"g">>, TInt8) >>)
NestedType == TStruct("config",
    << F(<<"f">>, TString),
       F(<<"n">>, TStruct("nested", << F(<<"f">>, TString), F(<<"d">>, DeeperType) >>)),
       F(<<"z">>, TString) >>)
NestedDefault == VStruct(<< VStr(<<"d">>),
                            VStruct(<< VStr(<<"d">>), VStruct(<< VStr(<<"d">>), VInt(5) >>) >>),
                            VStr(<<"d">>) >>)

\* Structs nested through pointers of depth n
\* (Test_Parse_StructPointers_PreserveDefaults,
\* Test_Parse_NestedPointerOfDoomToStruct).
NestedPtrType(n) == TStruct("config",
    << F(<<"f">>, TString),
       F(<<"n">>, TPtrN(TStruct("nested",
            << F(<<"f">>, TString), F(<<"d">>, TPtrN(DeeperType, n)) >>), n)),
       F(<<"z">>, TString) >>)
\* The outer struct is allocated and its inner pointer is nil ...
NestedPtrOuterOnly(n) == VStruct(<< VStr(<<"d">>),
                                    NewChain(n, 1, VStruct(<< VStr(<<"d">>), VNil >>)),
                                    VStr(<<"d">>) >>)
\* ... or both structs are allocated.
NestedPtrBoth(n) == VStruct(<< VStr(<<"d">>),
                               NewChain(n, 1, VStruct(<< VStr(<<"d">>),
                                   NewChain(n, n + 1, VStruct(<< VStr(<<"d">>), VInt(5) >>)) >>)),
                               VStr(<<"d">>) >>)

\* A custom-decoded struct behind n pointers
\* (Test_Parse_CustomTextUnmarshal..._PreserveDefaults), a custom-decoded
\* string and a pointer to a custom-decoded integer.
CustomType(n) == TStruct("config",
    << F(<<"c">>, TPtrN(TMultifield, n)), F(<<"u">>, TCustomString), F(<<"j">>, TPtr(TCustomInt)) >>)
CustomDefault(n) == VStruct(<< NewChain(n, 1, VStruct(<< VStr(<<"d">>), VStr(<<"x">>) >>)),
                               VStr(<<"D">>),
                               VNil >>)

\* A custom-decoded struct held by value next to plain fields, and a
\* pointer to a struct that holds a pointer to a custom-decoded struct.
CustomInsideType == TStruct("config",
    << F(<<"f">>, TString),
       F(<<"c">>, TMultifield),
       F(<<"b">>, TPtr(TStruct("inner", << F(<<"a">>, TPtr(TMultifield)), F(<<"g">>, TString) >>))) >>)
CustomInsideDefault ==
    VStruct(<< VStr(<<"d">>),
               VStruct(<< VStr(<<"d">>), VStr(<<"x">>) >>),
               VPtr(1, VStruct(<< VPtr(2, VStruct(<< VStr(<<"d">>), VStr(<<"x">>) >>)), VStr(<<"d">>) >>)) >>)

\* Key tags (Test_Parse_KeyTags, Test_Parse_IgnoreField): a fallback key,
\* an override key in mixed case, both tags, a field that is not included
\* and has no tag ...
KeyTagFields ==
    << Field("FieldA", <<>>, <<"a">>, TRUE, TString),
       Field("FieldB", <<"B","_","x">>, <<>>, TRUE, TString),
       Field("FieldC", <<"e">>, <<"k">>, TRUE, TString),
       Field("fieldD", <<>>, <<>>, FALSE, TString) >>
KeyTagsType == TStruct("configuration", KeyTagFields)
\* ... and, last, an included field with no tag at all
\* (Test_Parse_MissingFieldKey).
MissingKeyType == TStruct("configuration",
    Append(KeyTagFields, Field("FieldE", <<>>, <<>>, TRUE, TString)))

NoPrefix == {<<>>}
TestPrefixes == {<<>>, <<"T">>, <<"T","_">>}

Scn(name, type, dests, keys, texts, prefixes, converters) ==
    [name |-> name, type |-> type, dests |-> dests, keys |-> keys, texts |-> texts,
     prefixes |-> prefixes, converters |-> converters]

Scenarios ==
    { Scn("scalars", ScalarsType, {Zero(ScalarsType), ScalarsDefault},
          {<<"I">>, <<"B">>, <<"S">>, <<"D">>},
          {<<"0">>, <<"7">>, <<"t","r","u","e">>, <<"F","a","l","s","e">>, <<>>,
           <<"1","m","0","s">>, <<"0","s">>},
          NoPrefix, {"default"}) }
    \cup
    { Scn("pointer", PointerType(n), {Zero(PointerType(n)), PointerDefault(n)},
          {<<"P">>, <<"S">>},
          {<<"0">>, <<"7">>, <<"x">>, <<>>},
          NoPrefix, {"default"}) : n \in 1..MaxDepth }
    \cup
    { Scn("nested", NestedType, {Zero(NestedType), NestedDefault},
          {<<"F">>, <<"N","_","F">>, <<"N","_","D","_","F">>, <<"N","_","D","_","G">>, <<"Z">>,
           <<"T","_","N","_","F">>, <<"T","_","N","_","D","_","G">>},
          {<<"7">>, <<"x">>},
          TestPrefixes, {"default"}) }
    \cup
    { Scn("nestedptr", NestedPtrType(n),
          {Zero(NestedPtrType(n)), NestedPtrOuterOnly(n), NestedPtrBoth(n)},
          {<<"F">>, <<"N","_","F">>, <<"N","_","D","_","F">>, <<"N","_","D","_","G">>, <<"Z">>},
          {<<"7">>, <<"x">>, <<>>},
          NoPrefix, {"default"}) : n \in 1..MaxDepth }
    \cup
    { Scn("custom", CustomType(n), {Zero(CustomType(n)), CustomDefault(n)},
          {<<"C">>, <<"U">>, <<"J">>},
          {<<"s","e","t">>, <<"7">>, <<>>},
          NoPrefix, {"default"}) : n \in 0..MaxDepth }
    \cup
    { Scn("custominside", CustomInsideType, {Zero(CustomInsideType), CustomInsideDefault},
          {<<"F">>, <<"C">>, <<"B","_","A">>, <<"B","_","G">>},
          {<<"s","e","t">>, <<>>},
          NoPrefix, {"default"}) }
    \cup
    { Scn("keytags", t, {Zero(t)},
          {<<"A">>, <<"a">>, <<"B","_","x">>, <<"B","_","X">>, <<"e">>, <<"E">>, <<"K">>,
           <<"T","_","A">>, <<"T","_","B","_","x">>, <<"T","_","e">>},
          {<<"v">>},
          TestPrefixes, Converters) : t \in {KeyTagsType, MissingKeyType} }

----------------------------------------------------------------------------
(* The state machine                                                       *)

\* The number of allocations a destination holds.
RECURSIVE Allocations(_, _)
Allocations(t, v) ==
    CASE t.k = "Pointer" -> IF v.nil THEN 0 ELSE 1 + Allocations(t.elem[1], v.e[1])
      [] t.k = "Struct" ->
            LET RECURSIVE Sum(_)
                Sum(i) == IF i = 0 THEN 0 ELSE Sum(i - 1) + Allocations(t.fields[i].type, v.f[i])
            IN Sum(Len(t.fields))
      [] OTHER -> 0

EmptyEnv == [key \in {} |-> <<>>]

----------------------------------------------------------------------------
(* The source and its data: Source, the selectors, verify and load         *)

ErrNoDataSourceSpecified == "ErrNoDataSourceSpecified"
ErrMultipleDataSourcesSpecified == "ErrMultipleDataSourcesSpecified"
ErrSourceNotFound == "ErrSourceNotFound"
ErrNotExist == "fs.ErrNotExist"
ErrIsDirectory == "path, must be a directory"
ErrEnvFile == "gotenv: line is not a pair"
ErrVerificationFailed == "verification process must have failed"
ErrRead == "you shall not read"

\* The contents a source is given.  A text of no bytes, a text that holds
\* the pairs of the key/value set (env) line by line, and a text with a
\* line gotenv.StrictParse refuses.
NoBytes == <<>>
PairsText == <<"pairs">>
MalformedText == <<"malformed">>
Contents == {NoBytes, PairsText, MalformedText}

\* The paths a source is given: none, a file that does not exist, a
\* directory, and a file that holds the pairs of the key/value set.
NoPath == ""
MissingPath == "missing.env"
DirectoryPath == "./"
FilePath == "config.env"
SourcePaths == {NoPath, MissingPath, DirectoryPath, FilePath}

\* The readers a source is given: nil, a reader over contents, and a reader
\* whose Read fails: with an error of its own, or because the file behind
\* it does not exist.
NilReader == [nil |-> TRUE, contents |-> NoBytes, fails |-> NoErr]
NewReader(contents) == [nil |-> FALSE, contents |-> contents, fails |-> NoErr]
failingReader(e) == [nil |-> FALSE, contents |-> NoBytes, fails |-> e]
Readers == {NilReader} \cup {NewReader(c) : c \in Contents}
           \cup {failingReader(e) : e \in {ErrRead, ErrNotExist}}

\* Source()
Source == [path |-> NoPath, bytes |-> NoBytes, reader |-> NilReader, readEnv |-> FALSE,
           must |-> FALSE, loadIntoEnv |-> FALSE]

\* The number of data sources verify counts, with the test of each field
\* as verify makes it.
dataSourcesCount(s) ==
    (IF s.readEnv THEN 1 ELSE 0) + (IF s.path # "" THEN 1 ELSE 0)
    + (IF Len(s.bytes) > 0 THEN 1 ELSE 0) + (IF s.reader # NilReader THEN 1 ELSE 0)

\* os.Stat of the path, inside verify.
Stat(path) ==
    CASE path = MissingPath -> [err |-> ErrNotExist, isDir |-> FALSE]
      [] path = DirectoryPath -> [err |-> NoErr, isDir |-> TRUE]
      [] OTHER -> [err |-> NoErr, isDir |-> FALSE]

verify(s) ==
    IF dataSourcesCount(s) = 0 THEN ErrNoDataSourceSpecified
    ELSE IF dataSourcesCount(s) > 1 THEN ErrMultipleDataSourcesSpecified
    ELSE IF s.path # "" /\ Stat(s.path).err # NoErr THEN Stat(s.path).err
    ELSE IF s.path # "" /\ Stat(s.path).isDir THEN ErrIsDirectory
    ELSE NoErr

\* gotenv.StrictParse of a reader: the error of the reader, if it fails,
\* and else the error of a line that is no pair.
StrictParse(reader) ==
    IF reader.fails # NoErr THEN reader.fails
    ELSE IF reader.contents = MalformedText THEN ErrEnvFile ELSE NoErr

\* gotenv.Read of the file at path.
Read(path) == Stat(path).err

\* load: the error of reading the one data source; bytes first, then the
\* path, then the reader.
load(s) ==
    IF Len(s.bytes) > 0 THEN StrictParse(NewReader(s.bytes))
    ELSE IF s.path # "" THEN Read(s.path)
    ELSE IF s.reader # NilReader THEN StrictParse(s.reader)
    ELSE ErrVerificationFailed

\* A deferred function that swallows every error of a source that is no
\* Must.
deferredSwallowsAll(s, e) == IF ~s.must THEN NoErr ELSE e

\* The deferred function of Parse: a source that does not exist is
\* ErrSourceNotFound, which a source that is no Must swallows.
deferred(s, e) ==
    LET notFound == IF e = ErrNotExist THEN ErrSourceNotFound ELSE e
    IN  IF ~s.must /\ notFound = ErrSourceNotFound THEN NoErr ELSE notFound

\* Source().Env(), as the tests of the decode set the source up.
SelectedEnv ==
    /\ source = [Source EXCEPT !.readEnv = TRUE]
    /\ dataLoaded = FALSE
    /\ called = {"Env"}

\* Source(): the default converter and joiner, no prefix; the destination
\* holds the defaults its owner set.
Init ==
    /\ scenario \in Scenarios
    /\ dest \in scenario.dests
    /\ pre = dest
    /\ env = EmptyEnv
    /\ prefix = <<>>
    /\ converter = "default"
    /\ phase = "setup"
    /\ err = NoErr
    /\ errAt = <<>>
    /\ log = <<>>
    /\ heap = Allocations(scenario.type, dest)
    /\ SelectedEnv
    /\ stack = <<>>

\* Prefix(prefix)
Prefix(p) ==
    /\ phase = "setup"
    /\ prefix' = p
    /\ UNCHANGED <<scenario, dest, pre, env, converter, phase, err, errAt, log, heap,
                 source, dataLoaded, called, stack>>

\* KeyValueConverter(keyValueConverter)
KeyValueConverter(c) ==
    /\ phase = "setup"
    /\ converter' = c
    /\ UNCHANGED <<scenario, dest, pre, env, prefix, phase, err, errAt, log, heap,
                 source, dataLoaded, called, stack>>

\* The key/value set gains an entry before it is read (os.Setenv, or a line
\* of the parsed file).
Setenv(key, value) ==
    /\ phase = "setup"
    /\ key \notin DOMAIN env
    /\ Cardinality(DOMAIN env) < MaxEnv
    /\ env' = [k \in DOMAIN env \cup {key} |-> IF k = key THEN value ELSE env[k]]
    /\ UNCHANGED <<scenario, dest, pre, prefix, converter, phase, err, errAt, log, heap,
                 source, dataLoaded, called, stack>>

\* parse has returned r: the destination is as parse left it.
Returned(r) ==
    /\ dest' = r.val
    /\ err' = r.err
    /\ errAt' = r.at
    /\ log' = r.log
    /\ heap' = r.h

\* A dataLoaded that stays as Parse set it before the decode.
dataLoadedAlways(e) == TRUE

\* The dataLoaded of a Parse that has reached the decode: set to true
\* before parse is called, and back to false by the deferred function if
\* parse returned the error e.
dataLoadedAfter(e) == e = NoErr

\* Parse returns before parse is called: verify or load has failed with e.
ReturnedEarly(e) ==
    /\ err' = deferred(source, e)
    /\ dataLoaded' = FALSE
    /\ UNCHANGED <<dest, errAt, log, heap>>

\* Parse: verify, load unless the environment is read, then the decode of
\* the key/value set into the destination.
Parse ==
    /\ phase = "setup"
    /\ IF verify(source) # NoErr THEN ReturnedEarly(verify(source))
       ELSE IF ~source.readEnv /\ load(source) # NoErr THEN ReturnedEarly(load(source))
       ELSE /\ Returned(parse(scenario.type, dest, prefix, <<>>, 1,
                              [h |-> heap, log |-> <<>>, at |-> <<>>]))
            /\ dataLoaded' = dataLoadedAfter(err')
    /\ pre' = dest
    /\ phase' = "done"
    /\ UNCHANGED <<scenario, env, prefix, converter, source, called, stack>>

Next ==
    \/ \E p \in scenario.prefixes : Prefix(p)
    \/ \E c \in scenario.converters : KeyValueConverter(c)
    \/ \E key \in scenario.keys, value \in scenario.texts : Setenv(key, value)
    \/ Parse

Spec == Init /\ [][Next]_vars

----------------------------------------------------------------------------
(* Round trips: the canonical text of a value, decoded                     *)

\* The decimal digits of a natural number.
RECURSIVE Digits(_)
Digits(n) == IF n < 10 THEN <<DigitChars[n + 1]>>
             ELSE Digits(n \div 10) \o <<DigitChars[(n % 10) + 1]>>

\* strconv.FormatInt(n, 10)
FormatInt(n) == IF n < 0 THEN <<"-">> \o Digits(-n) ELSE Digits(n)

\* strconv.FormatBool
FormatBool(b) == IF b THEN <<"t","r","u","e">> ELSE <<"f","a","l","s","e">>

\* time.Duration.String, for a duration of whole seconds: "0s", "59s",
\* "1m0s", "1h1m1s".
FormatDuration(n) ==
    LET a == IF n < 0 THEN -n ELSE n
        sec == Digits(a % 60) \o <<"s">>
        min == IF a >= 60 THEN Digits((a \div 60) % 60) \o <<"m">> ELSE <<>>
        hour == IF a >= 3600 THEN Digits(a \div 3600) \o <<"h">> ELSE <<>>
    IN (IF n < 0 THEN <<"-">> ELSE <<>>) \o hour \o min \o sec

\* The longest duration of a round trip, in seconds.
MaxSeconds == 3700

RoundTripTypes == {TInt8, TUint8, TBool, TDuration}

\* Every value of a type (of a duration: those of the bound), and its
\* canonical text.
ValuesOf(t) ==
    CASE t = TInt8 -> { VInt(n) : n \in -128..127 }
      [] t = TUint8 -> { VInt(n) : n \in 0..255 }
      [] t = TBool -> { VBool(b) : b \in BOOLEAN }
      [] OTHER -> { VInt(n) : n \in -MaxSeconds..MaxSeconds }

Canonical(t, v) ==
    CASE t = TBool -> FormatBool(v.b)
      [] t = TDuration -> FormatDuration(v.n)
      [] OTHER -> FormatInt(v.n)

\* A default that is not the zero value.
NonZeroOf(t) == IF t = TBool THEN VBool(TRUE) ELSE VInt(5)

\* One field of the type, looked up at "V".
RoundTripType(t) == TStruct("configuration", << F(<<"v">>, t) >>)

\* The source holds the canonical text of a value of the field's type; the
\* field holds the zero value or a default.
InitRoundTrip ==
    /\ \E t \in RoundTripTypes : \E v \in ValuesOf(t) :
          /\ scenario = [name |-> "roundtrip", type |-> RoundTripType(t), value |-> v]
          /\ env = [key \in {<<"V">>} |-> Canonical(t, v)]
          /\ dest \in {VStruct(<<Zero(t)>>), VStruct(<<NonZeroOf(t)>>)}
    /\ pre = dest
    /\ prefix = <<>>
    /\ converter = "default"
    /\ phase = "setup"
    /\ err = NoErr
    /\ errAt = <<>>
    /\ log = <<>>
    /\ heap = 0
    /\ SelectedEnv
    /\ stack = <<>>

NextRoundTrip == Parse

SpecRoundTrip == InitRoundTrip /\ [][NextRoundTrip]_vars

----------------------------------------------------------------------------
(* Reading a destination                                                   *)

\* The base value behind a pointer chain; ok is FALSE when the chain holds a
\* nil pointer.
RECURSIVE Base(_, _)
Base(t, v) ==
    IF t.k # "Pointer" THEN [ok |-> TRUE, v |-> v]
    ELSE IF v.nil THEN [ok |-> FALSE, v |-> v]
    ELSE Base(t.elem[1], v.e[1])

\* The number of non-nil pointers a value starts with.
RECURSIVE ChainLength(_, _)
ChainLength(t, v) ==
    IF t.k # "Pointer" \/ v.nil THEN 0 ELSE 1 + ChainLength(t.elem[1], v.e[1])

\* The field at a path of field indices, from a struct type down.
RECURSIVE FieldAt(_, _)
FieldAt(t, path) ==
    IF Len(path) = 1 THEN t.fields[path[1]]
    ELSE FieldAt(extractNonPointerFieldType(t.fields[path[1]].type), Tail(path))

\* The value of the field at a path; ok is FALSE when a nil pointer lies
\* between the root and the field.
RECURSIVE ValueAt(_, _, _)
ValueAt(t, v, path) ==
    IF Len(path) = 1 THEN [ok |-> TRUE, v |-> v.f[path[1]]]
    ELSE IF ~Base(t.fields[path[1]].type, v.f[path[1]]).ok THEN [ok |-> FALSE, v |-> VNil]
    ELSE ValueAt(extractNonPointerFieldType(t.fields[path[1]].type),
                 Base(t.fields[path[1]].type, v.f[path[1]]).v, Tail(path))

\* Every path of a struct type.
RECURSIVE Paths(_)
Paths(t) ==
    UNION { {<<i>>} \cup
            (IF extractNonPointerFieldType(t.fields[i].type).k = "Struct"
             THEN { <<i>> \o q : q \in Paths(extractNonPointerFieldType(t.fields[i].type)) }
             ELSE {})
            : i \in 1..Len(t.fields) }

IsPrefix(p, q) == Len(p) <= Len(q) /\ SubSeq(q, 1, Len(p)) = p

\* p comes before q in a depth-first walk in declaration order.
RECURSIVE Before(_, _)
Before(p, q) ==
    IF p = <<>> THEN q # <<>>
    ELSE IF q = <<>> THEN FALSE
    ELSE IF p[1] # q[1] THEN p[1] < q[1]
    ELSE Before(Tail(p), Tail(q))

\* The fields that decode by the generic scalar rules: no custom decoder,
\* and a base type that is a string, an integer, a bool or a duration.
ScalarKinds == {"String", "Bool"} \cup IntKinds \cup UintKinds
IsPlainScalar(t) ==
    /\ ~HasTextUnmarshaler(extractNonPointerFieldType(t))
    /\ extractNonPointerFieldType(t).k \in ScalarKinds

Done == phase = "done"
Root == scenario.type
LogIndexes == 1..Len(log)
TypeOf(path) == FieldAt(Root, path).type
Now(path) == ValueAt(Root, dest, path)
Then(path) == ValueAt(Root, pre, path)


\* A value without the identities of its allocations: what an equality test
\* of two destinations compares.
RECURSIVE Content(_, _)
Content(t, v) ==
    CASE t.k = "Pointer" ->
            IF v.nil THEN v ELSE VPtr(0, Content(t.elem[1], v.e[1]))
      [] t.k = "Struct" ->
            VStruct([i \in 1..Len(t.fields) |-> Content(t.fields[i].type, v.f[i])])
      [] OTHER -> v

SameContent(path) ==
    /\ Now(path).ok = Then(path).ok
    /\ Now(path).ok => Content(TypeOf(path), Now(path).v) = Content(TypeOf(path), Then(path).v)

\* The only key of the source is the key of the nested leaf log[i], and the
\* destination held that leaf (every struct above it held by value or
\* through non-nil pointers).
OnlyNestedLeaf(i) ==
    /\ Cardinality(DOMAIN env) = 1
    /\ log[i].set
    /\ Len(log[i].path) >= 2
    /\ extractNonPointerFieldType(TypeOf(log[i].path)).k # "Struct"
    /\ Then(log[i].path).ok

----------------------------------------------------------------------------
(* The claims                                                              *)

\* C1: default preservation.  Given a destination pre-populated with
\* non-zero values at several nesting levels and a source in which only one
\* deeply nested leaf key is present, decode changes only that leaf: every
\* field that does not contain the leaf holds its pre-set value afterwards.
C1_DefaultPreservation ==
    (Done /\ pre # Zero(Root)) =>
        \A i \in LogIndexes : OnlyNestedLeaf(i) =>
            \A q \in Paths(Root) : ~IsPrefix(q, log[i].path) => SameContent(q)

\* C1 holds of the schemas whose fields are plain scalars and structs.
DefaultPreservationPlain ==
    scenario.name \in {"nested", "nestedptr"} => C1_DefaultPreservation

\* The leaf of such a schema has been set and its neighbours keep their
\* defaults.
DefaultPreservationPlainReached ==
    /\ Done /\ err = NoErr /\ scenario.name = "nestedptr" /\ pre # Zero(Root)
    /\ \E i \in LogIndexes : OnlyNestedLeaf(i) /\ Len(log[i].path) = 3
                             /\ Now(log[i].path).v # Then(log[i].path).v

\* C2: when lookup reports a field's key as absent and the field's declared
\* kind is neither struct nor pointer, the field is exactly as it was and
\* its step returns no error.
C2_AbsentScalarSkipped ==
    Done => \A i \in LogIndexes :
        (~log[i].set /\ TypeOf(log[i].path).k \notin {"Struct", "Pointer"}) =>
            /\ Now(log[i].path).ok /\ Then(log[i].path).ok => Now(log[i].path) = Then(log[i].path)
            /\ errAt # log[i].path

\* An absent integer with a default has been skipped, in a decode that
\* assigned another field.
C2_Witness ==
    /\ Done /\ scenario.name = "scalars" /\ dest.f[1] = VInt(5) /\ dest # pre
    /\ \E i \in LogIndexes : ~log[i].set /\ log[i].path = <<1>>

\* C4: when the raw text of a field without a custom decoder parses to the
\* zero value of its type, the field is not assigned: it is exactly as it
\* was.
C4_ZeroIsNoUpdate ==
    Done => \A i \in LogIndexes :
        (/\ log[i].set
         /\ IsPlainScalar(TypeOf(log[i].path))
         /\ parseValue(TypeOf(log[i].path), env[log[i].key]).err = NoErr
         /\ IsZero(extractNonPointerFieldType(TypeOf(log[i].path)),
                   parseValue(TypeOf(log[i].path), env[log[i].key]).val)
         /\ Then(log[i].path).ok)
        => Now(log[i].path) = Then(log[i].path)

\* "0" was given for an integer that held 5, and it still holds 5; "0" was
\* given for a non-nil pointer to 5, and it is the same pointer to 5.
C4_Witness ==
    /\ Done
    /\ \/ /\ scenario.name = "scalars" /\ <<"I">> \in DOMAIN env /\ env[<<"I">>] = <<"0">>
          /\ pre.f[1] = VInt(5) /\ dest.f[1] = VInt(5)
       \/ /\ scenario.name = "pointer" /\ <<"P">> \in DOMAIN env /\ env[<<"P">>] = <<"0">>
          /\ ~pre.f[1].nil /\ dest.f[1] = pre.f[1]


\* C3: round trip.  For every value v of an integer, boolean or duration
\* type, decoding a source that holds the canonical text of v into a field
\* of that type leaves the field equal to v, whatever it held before.
C3_RoundTrip ==
    (Done /\ scenario.name = "roundtrip") => dest.f[1] = scenario.value

\* The round trip holds for every value but the zero value, and for the
\* zero value when the field held it before.
RoundTripButZero ==
    (Done /\ scenario.name = "roundtrip") =>
        /\ err = NoErr
        /\ (~IsZero(TypeOf(<<1>>), scenario.value) \/ IsZero(TypeOf(<<1>>), pre.f[1]))
              => dest.f[1] = scenario.value

\* C5: pointer-depth symmetry.  For a nil field declared with pointer depth
\* N >= 1 over a non-struct base type, every present raw value that parses
\* without error leaves the field as a non-nil chain of exactly N hops that
\* ends in the parsed base value.
C5_PointerDepth ==
    Done => \A i \in LogIndexes :
        (/\ log[i].set
         /\ TypeOf(log[i].path).k = "Pointer"
         /\ IsPlainScalar(TypeOf(log[i].path))
         /\ Then(log[i].path).ok /\ Then(log[i].path).v.nil
         /\ parseValue(TypeOf(log[i].path), env[log[i].key]).err = NoErr)
        => /\ ChainLength(TypeOf(log[i].path), Now(log[i].path).v)
                = PointerDepth(TypeOf(log[i].path))
           /\ Base(TypeOf(log[i].path), Now(log[i].path).v).v
                = parseValue(TypeOf(log[i].path), env[log[i].key]).val

\* The symmetry holds of every parsed value but the zero value.
PointerDepthButZero ==
    Done => \A i \in LogIndexes :
        (/\ log[i].set
         /\ TypeOf(log[i].path).k = "Pointer"
         /\ IsPlainScalar(TypeOf(log[i].path))
         /\ Then(log[i].path).ok /\ Then(log[i].path).v.nil
         /\ parseValue(TypeOf(log[i].path), env[log[i].key]).err = NoErr
         /\ ~IsZero(extractNonPointerFieldType(TypeOf(log[i].path)),
                    parseValue(TypeOf(log[i].path), env[log[i].key]).val))
        => /\ ChainLength(TypeOf(log[i].path), Now(log[i].path).v)
                = PointerDepth(TypeOf(log[i].path))
           /\ Base(TypeOf(log[i].path), Now(log[i].path).v).v
                = parseValue(TypeOf(log[i].path), env[log[i].key]).val

\* No key below the field at path q resolved to a value.
NothingResolvedBelow(q) ==
    \A i \in LogIndexes : (IsPrefix(q, log[i].path) /\ log[i].path # q) => ~log[i].set

IsNilStructPointer(q) ==
    /\ TypeOf(q).k = "Pointer"
    /\ extractNonPointerFieldType(TypeOf(q)).k = "Struct"
    /\ ~HasTextUnmarshaler(extractNonPointerFieldType(TypeOf(q)))
    /\ Then(q).ok /\ Then(q).v.nil

\* C6: for a nil field whose type is a pointer chain to a struct, when none
\* of the keys of that struct's fields resolves to a value, the field is
\* still nil after decode.
C6_NilStructPointerStaysNil ==
    Done => \A q \in Paths(Root) :
        (IsNilStructPointer(q) /\ NothingResolvedBelow(q)) => (Now(q).ok /\ Now(q).v.nil)

\* C6 holds of the schemas whose structs hold plain scalars and structs.
NilStructPointerStaysNilPlain ==
    scenario.name \in {"nested", "nestedptr"} => C6_NilStructPointerStaysNil


\* The local keys the key-tag schema must give, by field: the fallback key
\* of FieldA through the converter, the override keys of FieldB and FieldC
\* as they are written.
ExpectedLocalKey(i) ==
    CASE i = 1 -> IF converter = "default" THEN <<"A">> ELSE <<"a">>
      [] i = 2 -> <<"B","_","x">>
      [] OTHER -> <<"e">>

\* The key a local key gives under the prefixes "", "T" and "T_".
UnderPrefix(local) == IF prefix = <<>> THEN local ELSE <<"T","_">> \o local

\* C7: the local lookup key of an included field is its `env` override tag,
\* verbatim, when that is non-empty; otherwise its fallback key passed
\* through the configured converter, when that is non-empty; otherwise
\* decode fails with ErrExportedFieldMissingKey, whatever the source holds.
C7_KeyPriority ==
    (Done /\ scenario.name = "keytags") =>
        /\ Len(log) = 3
        /\ \A i \in 1..3 :
              /\ log[i].path = <<i>>
              /\ log[i].key = UnderPrefix(ExpectedLocalKey(i))
              /\ dest.f[i] = IF log[i].key \in DOMAIN env THEN VStr(env[log[i].key]) ELSE pre.f[i]
        /\ Root = KeyTagsType => err = NoErr
        /\ Root = MissingKeyType => (err = ErrExportedFieldMissingKey /\ errAt = <<5>>)

\* The three kinds of field have been decoded under a prefix with the
\* identity converter, with a value for the override key, and the field
\* without any key has failed the decode.
C7_Witness ==
    /\ Done /\ scenario.name = "keytags" /\ Root = MissingKeyType
    /\ converter = "identity" /\ prefix = <<"T">>
    /\ dest.f[2] = VStr(<<"v">>)
    /\ err = ErrExportedFieldMissingKey

\* The key the claim gives for a path: the trimmed prefix, if there is one,
\* and the local keys of the path, with one underscore between the parts.
RECURSIVE LocalKeys(_, _)
LocalKeys(t, path) ==
    IF path = <<>> THEN <<>>
    ELSE <<ToUpper(t.fields[path[1]].key)>>
         \o LocalKeys(extractNonPointerFieldType(t.fields[path[1]].type), Tail(path))

RECURSIVE JoinParts(_)
JoinParts(parts) ==
    IF Len(parts) = 1 THEN parts[1]
    ELSE parts[1] \o <<"_">> \o JoinParts(Tail(parts))

ClaimedKey(path) ==
    JoinParts((IF prefix = <<>> THEN <<>> ELSE << <<"T">> >>) \o LocalKeys(Root, path))

\* C8: with the default joiner a non-empty prefix gives
\* trim(prefix) + "_" + trim(localKey), an empty prefix gives the local key
\* unchanged, and the prefix of a nested field is the joined key of its
\* parent: a field reached through local keys k1..kn under prefix p is
\* looked up at p_k1_..._kn, the same for the prefixes "T" and "T_".
C8_JoinedKey ==
    (Done /\ scenario.name \in {"nested", "nestedptr"}) =>
        \A i \in LogIndexes : log[i].key = ClaimedKey(log[i].path)

\* A leaf three structs deep has been looked up, and found, under the
\* prefix "T_".
C8_Witness ==
    /\ Done /\ scenario.name = "nested" /\ prefix = <<"T","_">>
    /\ \E i \in LogIndexes :
          /\ log[i].path = <<2, 2, 2>> /\ log[i].set
          /\ log[i].key = <<"T","_","N","_","D","_","G">>


\* The custom-decoded struct fields that have been looked up.
IsMultifield(i) == extractNonPointerFieldType(TypeOf(log[i].path)) = TMultifield

\* The field of log[i] held content before the decode: by value, or through
\* a pointer chain without a nil pointer.
HeldContent(i) ==
    /\ Then(log[i].path).ok
    /\ Base(TypeOf(log[i].path), Then(log[i].path).v).ok

\* C9: when a field's base type has the text-decode capability and the
\* field already holds content (by value, or through a fully non-nil
\* pointer chain), the decoder works on that content: the sub-field it does
\* not write keeps its pre-set value, the sub-field it writes holds the raw
\* text, and the field keeps its declared pointer depth.
C9_CustomDecoderKeepsDefaults ==
    (Done /\ scenario.name \in {"custom", "custominside"}) =>
        \A i \in LogIndexes :
            (IsMultifield(i) /\ HeldContent(i)) =>
                /\ Now(log[i].path).ok
                /\ ChainLength(TypeOf(log[i].path), Now(log[i].path).v)
                      = PointerDepth(TypeOf(log[i].path))
                /\ Base(TypeOf(log[i].path), Now(log[i].path).v).v.f[1]
                      = Base(TypeOf(log[i].path), Then(log[i].path).v).v.f[1]
                /\ Base(TypeOf(log[i].path), Now(log[i].path).v).v.f[2]
                      = VStr(lookup(log[i].key).val)

\* A struct behind three non-nil pointers has been decoded from "set": its
\* default is kept next to the decoded text, three pointers deep.
C9_Witness ==
    /\ Done /\ scenario.name = "custom" /\ err = NoErr
    /\ PointerDepth(TypeOf(<<1>>)) = MaxDepth
    /\ Base(TypeOf(<<1>>), pre.f[1]).ok
    /\ Base(TypeOf(<<1>>), dest.f[1]).ok
    /\ Base(TypeOf(<<1>>), dest.f[1]).v = VStruct(<< VStr(<<"d">>), VStr(<<"s","e","t">>) >>)


\* The lookups happened in the order of a depth-first walk in declaration
\* order.
VisitedInOrder == \A i, j \in LogIndexes : i < j => Before(log[i].path, log[j].path)

\* The field of log[i] is a plain scalar whose text parsed to a value other
\* than zero: the decode assigned it.
Assigned(i) ==
    /\ log[i].set
    /\ IsPlainScalar(TypeOf(log[i].path))
    /\ parseValue(TypeOf(log[i].path), env[log[i].key]).err = NoErr
    /\ ~IsZero(extractNonPointerFieldType(TypeOf(log[i].path)),
               parseValue(TypeOf(log[i].path), env[log[i].key]).val)

\* The destination holds the value assigned to the field of log[i].
KeepsAssigned(i) ==
    /\ Now(log[i].path).ok
    /\ Base(TypeOf(log[i].path), Now(log[i].path).v).ok
    /\ Base(TypeOf(log[i].path), Now(log[i].path).v).v
          = parseValue(TypeOf(log[i].path), env[log[i].key]).val

\* Nothing after the failing field has been looked up or modified.
NothingAfterFailure ==
    /\ \A i \in LogIndexes : log[i].path = errAt \/ Before(log[i].path, errAt)
    /\ \A q \in Paths(Root) : (q # errAt /\ Before(errAt, q)) => Now(q) = Then(q)

\* The prefixes of a path that are struct fields held through a pointer
\* chain with a nil pointer in it, and hold the failing field: parse gave
\* them a new struct, and dropped it with the error.
DroppedAbove(p) ==
    { a \in Paths(Root) :
        /\ Len(a) < Len(p) /\ IsPrefix(a, p) /\ IsPrefix(a, errAt)
        /\ Then(a).ok
        /\ ~Base(TypeOf(a), Then(a).v).ok }

\* C10 as stated: decode visits the fields in declaration order,
\* depth-first, and stops at the first error; every field assigned before
\* the failing field keeps its newly assigned value, and no field after the
\* failing one is looked up or modified.
C10_FailFastNoRollback ==
    Done =>
        /\ VisitedInOrder
        /\ err # NoErr =>
              /\ NothingAfterFailure
              /\ \A i \in LogIndexes :
                    (Assigned(i) /\ log[i].path # errAt) => KeepsAssigned(i)

\* C10, amended: decode visits the fields in declaration order,
\* depth-first, and stops at the first error; no field after the failing
\* one is looked up or modified; a field assigned before the failing field
\* keeps its newly assigned value, unless it was assigned inside a struct
\* that parse allocated for a nil pointer and that holds the failing field
\* too: that struct is dropped, and the pointer stays as it was.
C10_FailFastKeepsAttached ==
    Done =>
        /\ VisitedInOrder
        /\ err # NoErr =>
              /\ NothingAfterFailure
              /\ \A i \in LogIndexes :
                    (Assigned(i) /\ log[i].path # errAt) =>
                        IF DroppedAbove(log[i].path) = {}
                        THEN KeepsAssigned(i)
                        ELSE \A a \in DroppedAbove(log[i].path) : Now(a) = Then(a)

\* A decode has failed at a nested field with a field assigned before it,
\* in the destination, and an unvisited field with a value after it.
C10_Witness ==
    /\ Done /\ err = ErrParseValue /\ scenario.name = "nestedptr"
    /\ Len(errAt) = 3
    /\ \E i \in LogIndexes :
          /\ Assigned(i) /\ log[i].path = <<1>> /\ KeepsAssigned(i)
          /\ Then(log[i].path).v # Now(log[i].path).v
    /\ <<"Z">> \in DOMAIN env

\* A field has been assigned inside a struct allocated for a nil pointer,
\* and a later field of that struct has failed.
C10_DroppedReached ==
    /\ Done /\ err # NoErr
    /\ \E i \in LogIndexes :
          Assigned(i) /\ log[i].path # errAt /\ DroppedAbove(log[i].path) # {}


----------------------------------------------------------------------------
(* The splitter on its own                                                 *)

MaxLen == 4

\* Every text of at most n characters over an alphabet.
RECURSIVE TextsUpTo(_, _)
TextsUpTo(alphabet, n) ==
    IF n = 0 THEN {<<>>}
    ELSE TextsUpTo(alphabet, n - 1)
         \cup { Append(t, c) : t \in { u \in TextsUpTo(alphabet, n - 1) : Len(u) = n - 1 },
                               c \in alphabet }

SplitChars == {",", "="}

\* The texts of Test_Parse_StringSlice_EscapingRequired and of the
\* splitter's contract.
EscapedDelimiterText == <<"a", "\\", ",", "b", ",", "c">>
EscapedBackslashText ==
    <<"\\", "\\", ",", "\\", "\\", ",", "l", "o", "l", ",", "l", "o", "l", "\\", "\\", "f", "o", "o">>

SplitTexts(splitChar) ==
    TextsUpTo({"a", "\\", splitChar, TwoByteChar}, MaxLen)
    \cup (IF splitChar = "," THEN {EscapedDelimiterText, EscapedBackslashText} ELSE {})

InitSplit ==
    /\ \E splitChar \in SplitChars : \E literal \in SplitTexts(splitChar) :
          scenario = [name |-> "split", literal |-> literal, splitChar |-> splitChar]
    /\ dest = <<>>
    /\ pre = <<>>
    /\ env = EmptyEnv
    /\ prefix = <<>>
    /\ converter = "default"
    /\ phase = "setup"
    /\ err = NoErr
    /\ errAt = <<>>
    /\ log = <<>>
    /\ heap = 0
    /\ SelectedEnv
    /\ stack = <<>>

\* splitString is applied to the text.
Split ==
    /\ phase = "setup"
    /\ dest' = splitString(scenario.literal, scenario.splitChar)
    /\ phase' = "done"
    /\ UNCHANGED <<scenario, pre, env, prefix, converter, err, errAt, log, heap,
                 source, dataLoaded, called, stack>>

NextSplit == Split

SpecSplit == InitSplit /\ [][NextSplit]_vars

\* The segments the contract of split gives: a backslash and the character
\* after it stand for that character, an unescaped delimiter cuts, a
\* backslash at the end stands for itself.
RECURSIVE ContractSegments(_, _, _, _, _)
ContractSegments(text, d, i, segments, buffer) ==
    IF i > Len(text) THEN Append(segments, buffer)
    ELSE IF text[i] = "\\" /\ i < Len(text)
    THEN ContractSegments(text, d, i + 2, segments, Append(buffer, text[i + 1]))
    ELSE IF text[i] = d
    THEN ContractSegments(text, d, i + 1, Append(segments, buffer), <<>>)
    ELSE ContractSegments(text, d, i + 1, segments, Append(buffer, text[i]))

Contract == ContractSegments(scenario.literal, scenario.splitChar, 1, <<>>, <<>>)

\* The characters of the segments, in order.
RECURSIVE Flatten(_)
Flatten(segments) == IF segments = <<>> THEN <<>> ELSE Head(segments) \o Flatten(Tail(segments))

SplitDone == Done /\ scenario.name = "split"

\* The text holds a backslash: one that escapes, or one at its end.
HasBackslash == \E i \in 1..Len(scenario.literal) : scenario.literal[i] = "\\"

\* C11: in split a backslash escapes the character that follows it: an
\* escaped delimiter or backslash is emitted literally, without the
\* escaping backslash, and does not cut the text; an unescaped backslash at
\* the end of the input is kept.  The characters of the segments are those
\* of the contract, there are no more segments than the contract gives, and
\* the two texts of the contract split as it says.
C11_SplitEscapes ==
    (SplitDone /\ HasBackslash) =>
        /\ Flatten(dest) = Flatten(Contract)
        /\ Len(dest) <= Len(Contract)
        /\ scenario.literal = EscapedDelimiterText => dest = << <<"a", ",", "b">>, <<"c">> >>
        /\ scenario.literal = EscapedBackslashText =>
              dest = << <<"\\">>, <<"\\">>, <<"l", "o", "l">>, <<"l", "o", "l", "\\", "f", "o", "o">> >>

\* The same for the texts that do not end with a character of several
\* bytes: the segments are those of the contract, but for an empty last
\* segment.
SplitEscapesSingleByteEnd ==
    (SplitDone /\ HasBackslash /\ Width(scenario.literal[Len(scenario.literal)]) = 1) =>
        \/ dest = Contract
        \/ /\ Contract[Len(Contract)] = <<>>
           /\ dest = SubSeq(Contract, 1, Len(Contract) - 1)

\* Escaped delimiters and backslashes have been emitted.
SplitEscapesReached ==
    /\ SplitDone
    /\ scenario.literal = EscapedBackslashText
    /\ Len(dest) = 4


----------------------------------------------------------------------------
(* One field and one value                                                 *)

\* The struct of the collection tests' element type, and the collection
\* types of the tests.
TParsable == TStruct("parsable", << F(<<"b">>, TString) >>)
MapTypes == { TMap(TInt, TInt), TMap(TInt, TString), TMap(TString, TInt), TMap(TString, TString) }
ArrayLen == 3
ArrayTypes == { TArray(ArrayLen, TInt), TArray(ArrayLen, TString), TArray(1, TInt),
                TArray(ArrayLen, TPtr(TInt)) }
SliceTypes == { TSlice(TInt), TSlice(TString), TSlice(TPtr(TString)) }

\* The types decode has no parser for: complex numbers, and collections of
\* structs, slices and arrays.
UnsupportedElems == { TParsable, TPtr(TParsable), TSlice(TString), TArray(ArrayLen, TInt),
                      TPtr(TSlice(TString)) }
UnsupportedTypes ==
    { TComplex128, TPtr(TComplex128) }
    \cup { TSlice(e) : e \in UnsupportedElems }
    \cup { TArray(ArrayLen, e) : e \in UnsupportedElems }
NestedInMapTypes ==
    { TMap(TString, e) : e \in { TParsable, TSlice(TInt), TArray(ArrayLen, TInt) } }
    \cup { TMap(e, TString) : e \in { TParsable, TArray(ArrayLen, TInt) } }

ValueTypes == MapTypes \cup ArrayTypes \cup SliceTypes \cup UnsupportedTypes
              \cup NestedInMapTypes \cup {TBool}

\* The texts of the README and of Test_Parse_Map_StringEscaping.
ReadmeMapText == <<"a","=","1",",","b","=","2",",","w","e","i","r","d","\\","=","k","e","y","=","3">>
DoubledEscapeText == <<"1","=","g","o","o","d"," ","d","a","y","\\","\\","=","f","u","n">>
SingleEscapeText == <<"1","=","g","o","o","d"," ","d","a","y","\\","=","f","u","n">>

CollectionTexts ==
    { <<>>, <<"1">>, <<"1",",","2">>, <<"1",",","2",",","3">>, <<"1",",","2",",","3",",","4">>,
      <<"1",",","x",",","3">>, <<"0",",","0",",","0">>, <<"a",",","b",",">>, <<",">>,
      <<"1","=","1",",","2","=","3">>, <<"1","=","1",",","2","=">>,
      <<"1","=","1","=","3",",","2","=","3">>, <<"1","=">>, <<"=","1">>, <<"a","=","1">>,
      <<"1","=","1",",","1","=","2">>, <<"1","=","1",",",",","2","=","3">>,
      <<"l","o","l","=","1">>, <<"1","=","l","o","l">>,
      ReadmeMapText, DoubledEscapeText, SingleEscapeText }

BoolTexts ==
    { <<"t","r","u","e">>, <<"T","R","U","E">>, <<"t","R","u","E">>, <<"f","a","l","s","e">>,
      <<"F","a","l","s","E">>, <<"1">>, <<"0">>, <<"y","e","s">>, <<"c","h","e","e","s","e">>,
      <<" ","t","r","u","e">>, <<"t","r","u","e"," ">>, <<>>, <<"t">>, <<"t","r","u","e","e">> }

ValueTexts(t) == IF t = TBool THEN BoolTexts ELSE CollectionTexts

\* A value other than zero for the field to hold before the decode.
ValueDefault(t) ==
    CASE t.k = "Bool" -> VBool(TRUE)
      [] t.k = "Map" /\ t \in MapTypes ->
            VMap(SetMapIndex(EmptyEntries, Zero(t.key[1]), Zero(t.elem[1])))
      [] t.k = "Array" /\ t.elem[1].k = "Int" -> VArray([i \in 1..t.len |-> VInt(9)])
      [] t.k = "Array" /\ t.elem[1].k = "String" -> VArray([i \in 1..t.len |-> VStr(<<"d">>)])
      [] t.k = "Slice" /\ t.elem[1].k = "Int" -> VSlice(<< VInt(9) >>)
      [] t.k = "Slice" /\ t.elem[1].k = "String" -> VSlice(<< VStr(<<"d">>) >>)
      [] OTHER -> Zero(t)

ValueType(t) == TStruct("config", << F(<<"v">>, t) >>)

\* The source holds one text for the key of the one field.
InitValues ==
    /\ \E t \in ValueTypes : \E text \in ValueTexts(t) :
          /\ scenario = [name |-> "values", type |-> ValueType(t), text |-> text]
          /\ env = [key \in {<<"V">>} |-> text]
          /\ dest \in {VStruct(<<Zero(t)>>), VStruct(<<ValueDefault(t)>>)}
    /\ pre = dest
    /\ prefix = <<>>
    /\ converter = "default"
    /\ phase = "setup"
    /\ err = NoErr
    /\ errAt = <<>>
    /\ log = <<>>
    /\ heap = 0
    /\ SelectedEnv
    /\ stack = <<>>

NextValues == Parse

SpecValues == InitValues /\ [][NextValues]_vars

ValuesDone == Done /\ scenario.name = "values"
\* The type of the one field, the text of its key and its value.
V == scenario.type.fields[1].type
Text == scenario.text
Value == dest.f[1]
Unchanged == dest = pre


\* What the contract of split gives for a text.
SegmentsOf(text, d) == ContractSegments(text, d, 1, <<>>, <<>>)

\* The entries of the text, and the key and value texts of an entry, by the
\* contract of split.
EntryTexts == SegmentsOf(Text, ",")
KeyValueOf(entry) == SegmentsOf(entry, "=")

\* The string-keyed map of strings that entries with one '=' each denote.
RECURSIVE EntriesMap(_, _)
EntriesMap(entries, i) ==
    IF i = 0 THEN EmptyEntries
    ELSE SetMapIndex(EntriesMap(entries, i - 1),
                     VStr(KeyValueOf(entries[i])[1]), VStr(KeyValueOf(entries[i])[2]))

IsStringMap == V = TMap(TString, TString)

\* C12: a map entry is accepted if and only if it holds exactly one
\* unescaped '=': an entry with none or with more than one fails with
\* ErrParseValue, and an entry with exactly one is split into key text and
\* value text at that '=', also when the value text is empty.  For a map of
\* strings to strings: the text decodes to the map of its entries when each
\* entry holds one unescaped '=', and fails with ErrParseValue otherwise.
C12_MapEntryFormat ==
    (ValuesDone /\ IsStringMap /\ Text # <<>>) =>
        IF \A i \in 1..Len(EntryTexts) : Len(KeyValueOf(EntryTexts[i])) = 2
        THEN err = NoErr /\ Value = VMap(EntriesMap(EntryTexts, Len(EntryTexts)))
        ELSE err = ErrParseValue /\ Unchanged

\* No entry of the text is empty or ends with its only '='.
NoEmptyKeyValueEnd ==
    \A i \in 1..Len(EntryTexts) :
        /\ EntryTexts[i] # <<>>
        /\ Len(KeyValueOf(EntryTexts[i])) = 2 => KeyValueOf(EntryTexts[i])[2] # <<>>

\* The same for the texts whose entries are not empty and have a value text.
MapEntryFormatWithValues ==
    (ValuesDone /\ IsStringMap /\ Text # <<>> /\ NoEmptyKeyValueEnd) => C12_MapEntryFormat

\* A text with an entry without '=' and one with two have been refused, and
\* one with two entries accepted.
MapEntryFormatReached ==
    /\ ValuesDone /\ IsStringMap
    /\ Text = <<"1","=","1",",","2","=","3">>
    /\ Value = VMap(SetMapIndex(SetMapIndex(EmptyEntries, VStr(<<"1">>), VStr(<<"1">>)),
                                VStr(<<"2">>), VStr(<<"3">>)))


\* C13: in a map value every reserved character is escaped with a single
\* backslash: the text a=1,b=2,weird\=key=3 decodes into a string-keyed
\* map of integers to exactly {"a": 1, "b": 2, "weird=key": 3}.
C13_SingleEscapeInMap ==
    (ValuesDone /\ V = TMap(TString, TInt) /\ Text = ReadmeMapText) =>
        /\ err = NoErr
        /\ Value = VMap(SetMapIndex(SetMapIndex(SetMapIndex(EmptyEntries,
                            VStr(<<"a">>), VInt(1)),
                            VStr(<<"b">>), VInt(2)),
                            VStr(<<"w","e","i","r","d","=","k","e","y">>), VInt(3)))

\* C14: a literal '=' inside a map key or value must be written with
\* doubled escaping: the text 1=good day\\=fun decodes into an int-keyed
\* map of strings to {1: "good day=fun"}, one escape layer being removed by
\* the split on ',' and one by the split on '='; with one backslash the
\* entry holds two unescaped '=' and is refused.
C14_DoubledEscapeInMap ==
    (ValuesDone /\ V = TMap(TInt, TString)) =>
        /\ Text = DoubledEscapeText =>
              /\ err = NoErr
              /\ Value = VMap(SetMapIndex(EmptyEntries, VInt(1),
                                  VStr(<<"g","o","o","d"," ","d","a","y","=","f","u","n">>)))
        /\ Text = SingleEscapeText => (err = ErrParseValue /\ Unchanged)

\* The text with the doubled escape has been decoded over a default.
C14_Witness ==
    /\ ValuesDone /\ V = TMap(TInt, TString) /\ Text = DoubledEscapeText
    /\ pre # VStruct(<<Zero(V)>>)
    /\ err = NoErr
    /\ VInt(1) \in DOMAIN Value.m


\* The element type of the field, and the value an element text denotes.
Elem == V.elem[1]
ElementOf(text) == parseValue(Elem, text)

\* The array the segments denote, in input order.
ArrayOfSegments(segments) ==
    VArray([i \in 1..Len(segments) |-> ElementChain(Elem, ElementOf(segments[i]).val)])

\* The field has the length L and its segments are `segments`: another
\* number of segments fails with ErrParseValue and assigns nothing, L
\* parsable segments are assigned in input order.
ArrayLengthRule(segments) ==
    /\ Len(segments) # V.len => (err = ErrParseValue /\ Unchanged)
    /\ (/\ Len(segments) = V.len
        /\ \A i \in 1..Len(segments) : ElementOf(segments[i]).err = NoErr)
       => (err = NoErr /\ Value = ArrayOfSegments(segments))

\* C15: for a fixed-size array field of declared length L with a supported
\* element type, a text that splits into a number of elements other than L
\* fails with ErrParseValue and assigns nothing; a text that splits into
\* exactly L parsable elements assigns those L elements in input order.
C15_ArrayLength ==
    (ValuesDone /\ V \in ArrayTypes) => ArrayLengthRule(SegmentsOf(Text, ","))

\* The same for the texts that do not end with a delimiter and are not
\* empty, and denote an array other than the zero value.
ArrayLengthPlain ==
    (/\ ValuesDone /\ V \in ArrayTypes
     /\ Text # <<>> /\ Text[Len(Text)] # ","
     /\ Len(SegmentsOf(Text, ",")) = V.len
           => ~IsZero(V, ArrayOfSegments(SegmentsOf(Text, ",")))) => C15_ArrayLength

\* An array has been assigned over a default, and a text of another length
\* has been refused.
ArrayLengthReached ==
    /\ ValuesDone /\ V = TArray(ArrayLen, TInt) /\ pre # VStruct(<<Zero(V)>>)
    /\ \/ err = NoErr /\ Value # pre.f[1]
       \/ err = ErrParseValue /\ Text = <<"1",",","2">>


\* C16: a present value for a complex-number field, or for a slice or
\* array field whose element type is (a pointer to) a struct, slice or
\* array, always makes decode fail with ErrUnsupportedFieldType, whatever
\* the text is (empty, with elements that do not parse, of the wrong length
\* for an array), and the field is left as it was.
C16_UnsupportedTypes ==
    (ValuesDone /\ V \in UnsupportedTypes) =>
        (err = ErrUnsupportedFieldType /\ errAt = <<1>> /\ Unchanged)

\* An array of structs has been refused for a text of the wrong length, a
\* slice of slices for the empty text and a pointer to a complex number.
C16_Witness ==
    /\ ValuesDone /\ err = ErrUnsupportedFieldType
    /\ \/ V = TArray(ArrayLen, TParsable) /\ Text = <<"1",",","2">>
       \/ V = TSlice(TSlice(TString)) /\ Text = <<>>
       \/ V = TPtr(TComplex128) /\ Text = <<"1">>

\* C17: a present value for a map field whose key type or value type is a
\* struct, slice or array makes decode fail with ErrUnsupportedFieldType,
\* the error of such elements inside a slice or array.
C17_UnsupportedInMap ==
    (ValuesDone /\ V \in NestedInMapTypes) => err = ErrUnsupportedFieldType

\* What decode does for such a map: it fails with ErrParseValue for a key
\* or value text it cannot parse, a struct among them, and decodes slices
\* and arrays as map values.
UnsupportedInMapIsParseValue ==
    (ValuesDone /\ V \in NestedInMapTypes) => err \in {NoErr, ErrParseValue, Panic}


\* The text is "true" or "false" but for the case of its letters.
IsTrueText == ToUpper(Text) = <<"T","R","U","E">>
IsFalseText == ToUpper(Text) = <<"F","A","L","S","E">>

\* C18: a bool field accepts exactly the texts equal to "true" or "false"
\* ignoring letter case; every other text makes decode fail with
\* ErrParseValue and is never coerced to a boolean: the field is left as it
\* was.  A text equal to "true" makes the field true, a text equal to
\* "false" leaves a field that is false as it is.
C18_BoolStrict ==
    (ValuesDone /\ V = TBool) =>
        /\ err = (IF IsTrueText \/ IsFalseText THEN NoErr ELSE ErrParseValue)
        /\ err # NoErr => Unchanged
        /\ IsTrueText => Value = VBool(TRUE)
        /\ (IsFalseText /\ pre.f[1] = VBool(FALSE)) => Value = VBool(FALSE)

\* "tRuE" has been accepted into a field that was false, and "1", "yes" and
\* " true" refused.
C18_Witness ==
    /\ ValuesDone /\ V = TBool
    /\ \/ /\ Text = <<"t","R","u","E">> /\ pre.f[1] = VBool(FALSE) /\ Value = VBool(TRUE)
       \/ /\ Text \in { <<"1">>, <<"y","e","s">>, <<" ","t","r","u","e">> }
          /\ err = ErrParseValue


----------------------------------------------------------------------------
(* The integer parsers on their own                                        *)

IntegerKinds == {"Int8", "Int16", "Int32", "Int64", "Uint8", "Uint16", "Uint32", "Uint64"}

\* The largest number of each kind, the magnitude of its smallest number,
\* and the magnitudes next to them, in decimal digits.
MaxText(k) ==
    CASE k = "Int8" -> <<"1","2","7">>
      [] k = "Int16" -> <<"3","2","7","6","7">>
      [] k = "Int32" -> <<"2","1","4","7","4","8","3","6","4","7">>
      [] k = "Int64" -> <<"9","2","2","3","3","7","2","0","3","6","8","5","4","7","7","5","8","0","7">>
      [] k = "Uint8" -> <<"2","5","5">>
      [] k = "Uint16" -> <<"6","5","5","3","5">>
      [] k = "Uint32" -> <<"4","2","9","4","9","6","7","2","9","5">>
      [] k = "Uint64" -> <<"1","8","4","4","6","7","4","4","0","7","3","7","0","9","5","5","1","6","1","5">>

MinMagnitudeText(k) ==
    CASE k = "Int8" -> <<"1","2","8">>
      [] k = "Int16" -> <<"3","2","7","6","8">>
      [] k = "Int32" -> <<"2","1","4","7","4","8","3","6","4","8">>
      [] k = "Int64" -> <<"9","2","2","3","3","7","2","0","3","6","8","5","4","7","7","5","8","0","8">>
      [] k = "Uint8" -> <<"0">>
      [] k = "Uint16" -> <<"0">>
      [] k = "Uint32" -> <<"0">>
      [] k = "Uint64" -> <<"0">>

AboveMaxText(k) ==
    CASE k = "Int8" -> <<"1","2","8">>
      [] k = "Int16" -> <<"3","2","7","6","8">>
      [] k = "Int32" -> <<"2","1","4","7","4","8","3","6","4","8">>
      [] k = "Int64" -> <<"9","2","2","3","3","7","2","0","3","6","8","5","4","7","7","5","8","0","8">>
      [] k = "Uint8" -> <<"2","5","6">>
      [] k = "Uint16" -> <<"6","5","5","3","6">>
      [] k = "Uint32" -> <<"4","2","9","4","9","6","7","2","9","6">>
      [] k = "Uint64" -> <<"1","8","4","4","6","7","4","4","0","7","3","7","0","9","5","5","1","6","1","6">>

BelowMinMagnitudeText(k) ==
    CASE k = "Int8" -> <<"1","2","9">>
      [] k = "Int16" -> <<"3","2","7","6","9">>
      [] k = "Int32" -> <<"2","1","4","7","4","8","3","6","4","9">>
      [] k = "Int64" -> <<"9","2","2","3","3","7","2","0","3","6","8","5","4","7","7","5","8","0","9">>
      [] k = "Uint8" -> <<"1">>
      [] k = "Uint16" -> <<"1">>
      [] k = "Uint32" -> <<"1">>
      [] k = "Uint64" -> <<"1">>

\* The texts an integer field is given: the bounds of the kind and their
\* neighbours, signs, leading zeros, and texts that are no base-10 integer.
IntegerTexts(k) ==
    { MaxText(k), AboveMaxText(k), <<"+">> \o MaxText(k), <<"0">> \o MaxText(k),
      <<"-">> \o MinMagnitudeText(k), <<"-">> \o BelowMinMagnitudeText(k),
      <<"-">> \o MaxText(k), MaxText(k) \o <<"0">>,
      <<"0">>, <<"-","0">>, <<"+","5">>, <<"-","5">>, <<"0","0","7">>, <<"1","2","8">>,
      <<"2","5","5">>, <<"2","5","6">>, <<"-","1">>, <<"-","1","2","9">>,
      <<>>, <<"x">>, <<"1","x">>, <<"-">>, <<"+">>, <<"1","_","0">>, <<"1",".","0">>,
      <<" ","1">>, <<"1"," ">>, <<"-","-","1">>, <<"0","x","1">> }

InitIntegers ==
    /\ \E k \in IntegerKinds : \E text \in IntegerTexts(k) :
          scenario = [name |-> "integers", type |-> Ty(k, "", <<>>, <<>>), text |-> text]
    /\ dest = <<>>
    /\ pre = <<>>
    /\ env = EmptyEnv
    /\ prefix = <<>>
    /\ converter = "default"
    /\ phase = "setup"
    /\ err = NoErr
    /\ errAt = <<>>
    /\ log = <<>>
    /\ heap = 0
    /\ SelectedEnv
    /\ stack = <<>>

\* The integer cases of parseValue: the parser of the kind, with the bit
\* size of the field's type.
parseInteger(fieldType, envValue) ==
    IF fieldType.k \in IntKinds THEN ParseIntDigits(envValue, BitSize(fieldType.k))
    ELSE ParseUintDigits(envValue, BitSize(fieldType.k))

\* parseValue is applied to the text, for the integer type.
ParseInteger ==
    /\ phase = "setup"
    /\ dest' = parseInteger(scenario.type, scenario.text)
    /\ err' = IF parseInteger(scenario.type, scenario.text).ok THEN NoErr ELSE ErrParseValue
    /\ phase' = "done"
    /\ UNCHANGED <<scenario, pre, env, prefix, converter, errAt, log, heap,
                 source, dataLoaded, called, stack>>

NextIntegers == ParseInteger

SpecIntegers == InitIntegers /\ [][NextIntegers]_vars

IntegersDone == Done /\ scenario.name = "integers"
Kind == scenario.type.k
IsSignedKind == Kind \in {"Int8", "Int16", "Int32", "Int64"}

\* The text is a base-10 integer: digits, after a sign for a signed kind.
Digits10 == IF IsSignedKind /\ scenario.text # <<>> /\ scenario.text[1] \in {"+", "-"}
            THEN Tail(scenario.text) ELSE scenario.text
IsBase10 == Digits10 # <<>> /\ \A i \in 1..Len(Digits10) : Digits10[i] \in
                {"0","1","2","3","4","5","6","7","8","9"}
IsNegative == IsSignedKind /\ scenario.text # <<>> /\ scenario.text[1] = "-"
Magnitude == StripZeros(Digits10)

\* The number lies inside the range of the kind.
InRangeOfKind ==
    IF IsNegative
    THEN Magnitude = MinMagnitudeText(Kind) \/ LessDigits(Magnitude, MinMagnitudeText(Kind))
    ELSE Magnitude = MaxText(Kind) \/ LessDigits(Magnitude, MaxText(Kind))

\* C19: for a signed or unsigned integer field of width W in {8, 16, 32,
\* 64}, base-10 text whose value lies inside the W-bit range of the type
\* decodes to exactly that value, both bounds included; text whose value
\* lies outside the range, or that is no base-10 integer (a negative
\* number for an unsigned type among them), fails with ErrParseValue; a
\* value never wraps modulo 2^W.
C19_IntegerRange ==
    IntegersDone =>
        IF IsBase10 /\ InRangeOfKind
        THEN /\ err = NoErr
             /\ dest.ok
             /\ dest.mag = Magnitude
             /\ dest.neg = (IsNegative /\ Magnitude # <<>>)
        ELSE err = ErrParseValue /\ ~dest.ok

\* The largest number of a 64-bit kind has been decoded, and the
\* number after the largest 8-bit one refused.
C19_Witness ==
    /\ IntegersDone
    /\ \/ /\ Kind = "Int64" /\ scenario.text = MaxText("Int64")
          /\ dest.ok /\ dest.mag = MaxText("Int64")
       \/ /\ Kind = "Uint8" /\ scenario.text = <<"2","5","6">> /\ err = ErrParseValue


----------------------------------------------------------------------------
(* The source's setup: selectors, Must, LoadIntoEnv and Parse              *)

\* Two fields read from a source, as in Test_Parse_StringSource; "x" is no
\* integer.
SourceScenario ==
    Scn("source", TStruct("configuration", << F(<<"s">>, TString), F(<<"i">>, TInt8) >>),
        {VStruct(<< VStr(<<"d">>), VInt(5) >>)},
        {<<"S">>, <<"I">>}, {<<"7">>, <<"x">>}, NoPrefix, {"default"})

\* Source(): no selector has been called.
InitSource ==
    /\ scenario = SourceScenario
    /\ dest \in scenario.dests
    /\ pre = dest
    /\ env = EmptyEnv
    /\ prefix = <<>>
    /\ converter = "default"
    /\ phase = "setup"
    /\ err = NoErr
    /\ errAt = <<>>
    /\ log = <<>>
    /\ heap = 0
    /\ source = Source
    /\ dataLoaded = FALSE
    /\ called = {}
    /\ stack = <<>>

\* A setup method sets fields of the source; selector is the source
\* selector it is, if it is one.
Configured(s, selector) ==
    /\ phase = "setup"
    /\ source' = s
    /\ called' = called \cup selector
    /\ UNCHANGED <<scenario, dest, pre, env, prefix, converter, phase, err, errAt, log, heap,
                   dataLoaded, stack>>

\* Bytes(bytes)
Bytes(bytes) == Configured([source EXCEPT !.bytes = bytes], {"Bytes"})

\* String(str): the bytes of the string.
String(str) == Configured([source EXCEPT !.bytes = str], {"String"})

\* Path(path)
Path(path) == Configured([source EXCEPT !.path = path], {"Path"})

\* Reader(reader)
Reader(reader) == Configured([source EXCEPT !.reader = reader], {"Reader"})

\* Env()
Env == Configured([source EXCEPT !.readEnv = TRUE], {"Env"})

\* LoadIntoEnv()
LoadIntoEnv == ~source.loadIntoEnv /\ Configured([source EXCEPT !.loadIntoEnv = TRUE], {})

\* Must()
Must == ~source.must /\ Configured([source EXCEPT !.must = TRUE], {})

NextSource ==
    \/ \E bytes \in Contents : Bytes(bytes)
    \/ \E str \in Contents : String(str)
    \/ \E path \in SourcePaths : Path(path)
    \/ \E reader \in Readers : Reader(reader)
    \/ Env
    \/ LoadIntoEnv
    \/ Must
    \/ \E key \in scenario.keys, value \in scenario.texts : Setenv(key, value)
    \/ Parse

SpecSource == InitSource /\ [][NextSource]_vars

SourceDone == Done /\ scenario.name = "source"

\* C20: Parse on a source returns ErrNoDataSourceSpecified (with dataLoaded
\* false) when none of the source selectors Bytes, String, Path, Reader or
\* Env has been called on it, and does not return this error once one of
\* them has been called, whatever argument it was called with (an empty
\* string or an empty byte slice included).
C20_NoDataSource ==
    SourceDone =>
        /\ called = {} => (err = ErrNoDataSourceSpecified /\ ~dataLoaded)
        /\ called # {} => err # ErrNoDataSourceSpecified

\* C20, first half: with no selector called, Parse returns
\* ErrNoDataSourceSpecified and dataLoaded false; and whenever Parse returns
\* this error, no field of the source holds a data source.
NoDataSourceWhenNoneHeld ==
    SourceDone =>
        /\ called = {} => (err = ErrNoDataSourceSpecified /\ ~dataLoaded)
        /\ err = ErrNoDataSourceSpecified <=>
              (~source.readEnv /\ source.path = "" /\ source.bytes = <<>>
                  /\ source.reader = NilReader)

\* Parse has returned ErrNoDataSourceSpecified with no selector called.
NoDataSourceReached == SourceDone /\ called = {} /\ err = ErrNoDataSourceSpecified


FileSelectors == {"Bytes", "String", "Path", "Reader"}

\* C21: Parse returns ErrMultipleDataSourcesSpecified, with dataLoaded
\* false and the destination untouched, whenever more than one of the
\* source selectors Bytes, String, Path and Reader has been called on the
\* source, for every pair of distinct selectors and in any call order.
C21_MultipleDataSources ==
    (SourceDone /\ Cardinality(called \cap FileSelectors) > 1) =>
        /\ err = ErrMultipleDataSourcesSpecified
        /\ ~dataLoaded
        /\ dest = pre

\* C21, as the code has it: Parse returns ErrMultipleDataSourcesSpecified
\* exactly when more than one field of the source holds a data source, and
\* then with dataLoaded false and the destination untouched.
MultipleDataSourcesWhenSeveralHeld ==
    SourceDone =>
        /\ err = ErrMultipleDataSourcesSpecified <=> dataSourcesCount(source) > 1
        /\ err = ErrMultipleDataSourcesSpecified => (~dataLoaded /\ dest = pre)

\* Parse has returned ErrMultipleDataSourcesSpecified after Bytes and Path.
MultipleDataSourcesReached ==
    /\ SourceDone
    /\ called = {"Bytes", "Path"}
    /\ err = ErrMultipleDataSourcesSpecified

\* Bytes and String have both been called with a text that holds pairs,
\* and Parse has decoded the text without an error.
BytesAndStringDecoded ==
    /\ SourceDone
    /\ called = {"Bytes", "String"}
    /\ source.bytes = PairsText
    /\ err = NoErr
    /\ dataLoaded


\* The failure of the source, before the deferred function of Parse has
\* seen it: of verify, or else of load.
SourceFailure ==
    IF verify(source) # NoErr THEN verify(source)
    ELSE IF ~source.readEnv THEN load(source) ELSE NoErr

\* The source is not found: the path, or the file behind the reader, does
\* not exist.
NotFound == SourceFailure = ErrNotExist

\* C22: the Must flag changes the outcome of Parse only for a source that
\* is not found.  For a path that does not exist, Parse returns
\* ErrSourceNotFound when Must is set, and no error, dataLoaded false and
\* an unchanged destination when it is not set.  Every other failure of
\* the source (a path that is a directory, a reader that fails, a line
\* that is no pair) is returned as it is, whether or not Must is set.
C22_MustOnlyForNotFound ==
    SourceDone =>
        /\ (NotFound /\ source.must) => (err = ErrSourceNotFound /\ ~dataLoaded /\ dest = pre)
        /\ (NotFound /\ ~source.must) => (err = NoErr /\ ~dataLoaded /\ dest = pre)
        /\ (SourceFailure # NoErr /\ ~NotFound) =>
              (err = SourceFailure /\ ~dataLoaded /\ dest = pre)
        /\ (source.path = DirectoryPath /\ dataSourcesCount(source) = 1) => err = ErrIsDirectory
        /\ (source.reader = failingReader(ErrRead) /\ dataSourcesCount(source) = 1) =>
              err = ErrRead

\* A path that does not exist has been parsed without Must.
C22_Witness ==
    /\ SourceDone
    /\ ~source.must
    /\ dataSourcesCount(source) = 1
    /\ source.path = MissingPath
    /\ err = NoErr

\* A reader that fails has been parsed without Must.
FailingReaderReached ==
    /\ SourceDone
    /\ ~source.must
    /\ source.reader = failingReader(ErrRead)
    /\ err = ErrRead

\* A path that does not exist has been parsed with Must.
MustNotFoundReached ==
    SourceDone /\ source.must /\ source.path = MissingPath /\ err = ErrSourceNotFound


\* C23: Parse never returns dataLoaded true together with an error: for
\* every configuration of the source and every failure (of the
\* verification, of the loading, of the decode of a field) the flag is
\* false whenever an error is returned.
C23_NoDataLoadedWithError == (SourceDone /\ err # NoErr) => ~dataLoaded

\* The decode of a field has failed after the source was loaded.
C23_Witness ==
    /\ SourceDone
    /\ SourceFailure = NoErr
    /\ err = ErrParseValue
    /\ ~dataLoaded


----------------------------------------------------------------------------
(* Fields the parsing companion does not include                           *)

\* Fields that are not included (Test_Parse_IgnoreField,
\* Test_Parse_UnexportedFieldsIgnored): one without any key, one with a
\* key, a pointer and a struct with a keyed field; between them a field
\* that is included.
IgnoredType == TStruct("configuration",
    << Field("FieldA", <<>>, <<>>, FALSE, TString),
       Field("fieldB", <<>>, <<"b">>, FALSE, TString),
       Field("FieldC", <<>>, <<"c">>, TRUE, TString),
       Field("fieldD", <<>>, <<>>, FALSE, TPtr(TInt8)),
       Field("fieldN", <<>>, <<"n">>, FALSE, TStruct("nested", << F(<<"f">>, TString) >>)) >>)
IgnoredDefault ==
    VStruct(<< VStr(<<"d">>), VStr(<<"d">>), VStr(<<"d">>), VPtr(1, VInt(5)),
               VStruct(<< VStr(<<"d">>) >>) >>)
IgnoredScenario ==
    Scn("ignored", IgnoredType, {Zero(IgnoredType), IgnoredDefault},
        {<<"B">>, <<"C">>, <<"N">>, <<"N","_","F">>, <<"F","I","E","L","D","A">>},
        {<<"v">>, <<"7">>}, NoPrefix, {"default"})

InitIgnored ==
    /\ scenario = IgnoredScenario
    /\ dest \in scenario.dests
    /\ pre = dest
    /\ env = EmptyEnv
    /\ prefix = <<>>
    /\ converter = "default"
    /\ phase = "setup"
    /\ err = NoErr
    /\ errAt = <<>>
    /\ log = <<>>
    /\ heap = Allocations(scenario.type, dest)
    /\ SelectedEnv
    /\ stack = <<>>

NextIgnored ==
    \/ \E key \in scenario.keys, value \in scenario.texts : Setenv(key, value)
    \/ Parse

SpecIgnored == InitIgnored /\ [][NextIgnored]_vars

IgnoredDone == Done /\ scenario.name = "ignored"

\* C24: a field for which includeField returns false (an unexported field,
\* or a field tagged to be ignored) is never looked up and never modified,
\* and it never causes a MissingKey error, even when it carries no key
\* annotation at all.
C24_IgnoredFields ==
    IgnoredDone =>
        /\ err = NoErr
        /\ \A i \in 1..Len(Root.fields) :
              ~Root.fields[i].include =>
                  /\ dest.f[i] = pre.f[i]
                  /\ \A j \in LogIndexes : log[j].path[1] # i
        /\ heap = Allocations(Root, pre)

\* The source holds a value under the key of a field that is not included
\* and under the key of the field inside a struct that is not included;
\* the included field has been decoded.
C24_Witness ==
    /\ IgnoredDone
    /\ <<"B">> \in DOMAIN env
    /\ <<"N","_","F">> \in DOMAIN env
    /\ <<"C">> \in DOMAIN env
    /\ dest.f[3] = VStr(<<"v">>)
    /\ dest.f[2] = VStr(<<"d">>)


----------------------------------------------------------------------------
(* The segments of split                                                   *)

\* C25: split cuts at every unescaped occurrence of the delimiter: for
\* every text with k unescaped delimiters (the empty text, a text that
\* begins or ends with an unescaped delimiter and a text whose last
\* character has several bytes among them) it returns exactly k+1 segments
\* in input order, and no character other than a cutting delimiter or an
\* escaping backslash is missing from the segments.
C25_SplitSegments == SplitDone => dest = Contract

\* C25, as the code has it: the segments are those of the contract but for
\* the last one, which is missing when it is empty (the empty text, a text
\* that ends with an unescaped delimiter) and when the text ends with a
\* character of several bytes.
SplitButLastSegment ==
    SplitDone =>
        LET literal == scenario.literal
            butLast == SubSeq(Contract, 1, Len(Contract) - 1)
        IN  IF literal = <<>> THEN dest = <<>>
            ELSE IF Width(literal[Len(literal)]) > 1 THEN dest = butLast
            ELSE IF Contract[Len(Contract)] = <<>> THEN dest = butLast
            ELSE dest = Contract

\* A text that ends with a character of several bytes has lost its last
\* segment.
SplitLastSegmentLost ==
    /\ SplitDone
    /\ scenario.literal = <<"a", ",", TwoByteChar>>
    /\ dest = << <<"a">> >>


----------------------------------------------------------------------------
(* The calls of parse, one at a time                                       *)

\* The most calls of parse the stack of the goroutine holds.
MaxCalls == 6

ErrStackOverflow == "fatal error: stack overflow"

\* A struct type that refers to itself through a pointer field:
\*     type node struct { V int8 `key:"v"`; Next *node `key:"next"` }
\* The field's type names the struct; TypeNamed gives it.
TRef(name) == Ty("Ref", name, <<>>, <<>>)
NodeType == TStruct("node", << F(<<"v">>, TInt8), F(<<"n","e","x","t">>, TPtr(TRef("node"))) >>)
TypeNamed(name) == NodeType

\* The type of a field, as reflect gives it: the struct a name stands for.
RECURSIVE Resolved(_)
Resolved(t) ==
    CASE t.k = "Ref" -> TypeNamed(t.name)
      [] t.k = "Pointer" -> TPtr(Resolved(t.elem[1]))
      [] OTHER -> t

\* A node whose Next is nil, and a node whose Next points to such a node.
NodeZero == VStruct(<< VInt(0), VNil >>)
NodeDefault == VStruct(<< VInt(5), VPtr(1, VStruct(<< VInt(5), VNil >>)) >>)

RecursionScenarios ==
    { Scn("node", NodeType, {NodeZero, NodeDefault},
          {<<"V">>, <<"N","E","X","T","_","V">>, <<"N","E","X","T","_","N","E","X","T","_","V">>},
          {<<"7">>, <<"x">>}, NoPrefix, {"default"}),
      Scn("tree", NestedType, {Zero(NestedType), NestedDefault},
          {<<"F">>, <<"N","_","F">>, <<"N","_","D","_","G">>},
          {<<"7">>, <<"x">>}, NoPrefix, {"default"}),
      Scn("tree", NestedPtrType(2), {Zero(NestedPtrType(2)), NestedPtrBoth(2)},
          {<<"F">>, <<"N","_","F">>, <<"N","_","D","_","G">>},
          {<<"7">>, <<"x">>}, NoPrefix, {"default"}) }

InitRecursion ==
    /\ scenario \in RecursionScenarios
    /\ dest \in scenario.dests
    /\ pre = dest
    /\ env = EmptyEnv
    /\ prefix = <<>>
    /\ converter = "default"
    /\ phase = "setup"
    /\ err = NoErr
    /\ errAt = <<>>
    /\ log = <<>>
    /\ heap = 0
    /\ SelectedEnv
    /\ stack = <<>>

\* A call of parse: the struct it walks, the prefix of its keys and the
\* index of the field its loop is at.
Frame(structType, structValue, envPrefix) ==
    [type |-> structType, value |-> structValue, prefix |-> envPrefix, i |-> 1]

Top == stack[Len(stack)]
AtField == Len(stack) > 0 /\ Top.i <= Len(Top.type.fields)
structFieldOfTop == Top.type.fields[Top.i]
fieldTypeOfTop == Resolved(structFieldOfTop.type)
valueOfTop == Top.value.f[Top.i]
joinedEnvKeyOfTop == defaultKeyJoiner(Top.prefix, extractEnvKey(converter, structFieldOfTop).key)

\* The error that ends the iteration of the field on top, if there is one:
\* of the key, of the custom decoder or of parseValue.
errorOfTop ==
    LET l == lookup(joinedEnvKeyOfTop)
        underlyingType == extractNonPointerFieldType(fieldTypeOfTop)
    IN IF ~structFieldOfTop.include THEN NoErr
       ELSE IF extractEnvKey(converter, structFieldOfTop).err # NoErr
       THEN extractEnvKey(converter, structFieldOfTop).err
       ELSE IF skipsMissing(l.set, fieldTypeOfTop) THEN NoErr
       ELSE IF HasTextUnmarshaler(underlyingType)
       THEN UnmarshalText(underlyingType, customTarget(fieldTypeOfTop, valueOfTop), l.val).err
       ELSE parseValue(fieldTypeOfTop, l.val).err

\* The struct parse is called on for the field on top: the struct in place,
\* the struct behind a chain without nil, or a new struct.
structOfTop ==
    LET deepestPotentialPointer == extractDeepestPotentialPointer(fieldTypeOfTop, valueOfTop)
    IN IF deepestPotentialPointer.k # "Pointer" THEN valueOfTop
       ELSE IF ~deepestPotentialPointer.nil THEN deepestPotentialPointer.e[1]
       ELSE Zero(extractNonPointerFieldType(fieldTypeOfTop))

\* The lookup of the field on top, added to the lookups made.
Lookup ==
    IF structFieldOfTop.include /\ extractEnvKey(converter, structFieldOfTop).err = NoErr
    THEN log' = Append(log, [key |-> joinedEnvKeyOfTop, path |-> <<Len(stack), Top.i>>,
                             set |-> lookup(joinedEnvKeyOfTop).set])
    ELSE log' = log

\* Parse calls parse on the destination.
Call ==
    /\ phase = "setup"
    /\ phase' = "parsing"
    /\ stack' = << Frame(Root, dest, prefix) >>
    /\ UNCHANGED <<scenario, dest, pre, env, prefix, converter, err, errAt, log, heap,
                   source, dataLoaded, called>>

\* An iteration of the loop that calls parse on no struct: its field is
\* skipped, or decoded by the custom decoder or by parseValue.
Iterate ==
    /\ phase = "parsing"
    /\ AtField
    /\ errorOfTop = NoErr
    /\ stack' = [stack EXCEPT ![Len(stack)].i = @ + 1]
    /\ Lookup
    /\ UNCHANGED <<scenario, dest, pre, env, prefix, converter, phase, err, errAt, heap,
                   source, dataLoaded, called>>

\* An iteration of the loop returns an error, and so does every call of
\* parse above it, and Parse.
Fail ==
    /\ phase = "parsing"
    /\ AtField
    /\ errorOfTop \notin {NoErr, errEmbeddedStructDetected}
    /\ stack' = <<>>
    /\ err' = errorOfTop
    /\ phase' = "done"
    /\ Lookup
    /\ UNCHANGED <<scenario, dest, pre, env, prefix, converter, errAt, heap,
                   source, dataLoaded, called>>

\* parseValue has returned errEmbeddedStructDetected: parse calls itself on
\* the struct of the field, with the key of the field as prefix.
Recurse ==
    /\ phase = "parsing"
    /\ AtField
    /\ errorOfTop = errEmbeddedStructDetected
    /\ Len(stack) < MaxCalls
    /\ stack' = Append(stack, Frame(extractNonPointerFieldType(fieldTypeOfTop), structOfTop,
                                    joinedEnvKeyOfTop))
    /\ Lookup
    /\ UNCHANGED <<scenario, dest, pre, env, prefix, converter, phase, err, errAt, heap,
                   source, dataLoaded, called>>

\* The same call, when the stack of the goroutine holds no further call:
\* the program ends with a fatal error.
Overflow ==
    /\ phase = "parsing"
    /\ AtField
    /\ errorOfTop = errEmbeddedStructDetected
    /\ Len(stack) = MaxCalls
    /\ err' = ErrStackOverflow
    /\ phase' = "done"
    /\ UNCHANGED <<scenario, dest, pre, env, prefix, converter, errAt, log, heap,
                   source, dataLoaded, called, stack>>

\* The loop of the call on top has ended: parse returns nil, and the loop
\* of its caller goes on with the next field, or Parse returns.
Return ==
    /\ phase = "parsing"
    /\ Len(stack) > 0
    /\ ~AtField
    /\ stack' = IF Len(stack) = 1 THEN <<>>
                ELSE [SubSeq(stack, 1, Len(stack) - 1) EXCEPT ![Len(stack) - 1].i = @ + 1]
    /\ phase' = IF Len(stack) = 1 THEN "done" ELSE phase
    /\ UNCHANGED <<scenario, dest, pre, env, prefix, converter, err, errAt, log, heap,
                   source, dataLoaded, called>>

NextRecursion ==
    \/ \E key \in scenario.keys, value \in scenario.texts : Setenv(key, value)
    \/ Call
    \/ Iterate
    \/ Fail
    \/ Recurse
    \/ Overflow
    \/ Return

SpecRecursion == InitRecursion /\ [][NextRecursion]_vars

\* The nesting and pointer depth of a schema as it is declared: a struct
\* and a pointer count one each, on the deepest path of the declaration.
RECURSIVE StaticDepth(_)
StaticDepth(t) ==
    CASE t.k = "Pointer" -> 1 + StaticDepth(t.elem[1])
      [] t.k = "Struct" ->
            LET Deepest[i \in 0..Len(t.fields)] ==
                    IF i = 0 THEN 0
                    ELSE IF StaticDepth(t.fields[i].type) > Deepest[i - 1]
                    THEN StaticDepth(t.fields[i].type) ELSE Deepest[i - 1]
            IN 1 + Deepest[Len(t.fields)]
      [] OTHER -> 1

\* C26: decode terminates for every schema and every source: its recursion
\* depth is bounded by the static nesting and pointer depth of the schema
\* and does not depend on the contents of the source, also for a schema
\* whose struct type refers to itself through a pointer field that is nil
\* in the destination.
C26_BoundedRecursion ==
    /\ Len(stack) <= StaticDepth(Root)
    /\ err # ErrStackOverflow

\* C26, for the schemas whose types do not refer to themselves: the calls
\* of parse are never more than the nesting of the schema, and the stack is
\* never exhausted.
BoundedRecursionOfTrees ==
    scenario.name = "tree" => (Len(stack) <= StaticDepth(Root) /\ err # ErrStackOverflow)

\* The calls of parse on the self-referring struct have exhausted the stack
\* with an empty source.
StackOverflowReached ==
    /\ scenario.name = "node" /\ Done /\ env = EmptyEnv /\ err = ErrStackOverflow

\* A value of the source has ended the calls of parse on the self-referring
\* struct with an error.
RecursionEndedBySource ==
    /\ scenario.name = "node" /\ Done /\ err = ErrParseValue /\ Len(log) = 3


\* The calls made one at a time end as parse ends: with its error, after
\* its lookups.
CallsAgreeWithParse ==
    (scenario.name = "tree" /\ Done) =>
        LET r == parse(Root, dest, prefix, <<>>, 1, [h |-> heap, log |-> <<>>, at |-> <<>>])
        IN  /\ err = r.err
            /\ Len(log) = Len(r.log)
            /\ \A j \in LogIndexes : log[j].key = r.log[j].key /\ log[j].set = r.log[j].set


----------------------------------------------------------------------------
(* The allocations behind a pointer field                                  *)

\* The identities of the allocations a pointer chain goes through.
RECURSIVE ChainIds(_, _)
ChainIds(t, v) ==
    IF t.k # "Pointer" \/ v.nil THEN <<>> ELSE <<v.id>> \o ChainIds(t.elem[1], v.e[1])

\* The field of log[i] is a pointer that held a chain without nil before
\* the decode, and still can be reached.
HeldChain(i) ==
    /\ TypeOf(log[i].path).k = "Pointer"
    /\ HeldContent(i)
    /\ Now(log[i].path).ok

\* The target of the field of log[i] is a struct that parse recurses into.
IsStructTarget(i) ==
    /\ extractNonPointerFieldType(TypeOf(log[i].path)).k = "Struct"
    /\ ~HasTextUnmarshaler(extractNonPointerFieldType(TypeOf(log[i].path)))

\* C27: when a pointer field already holds a non-nil chain, decode reuses
\* that chain instead of replacing it: after a successful decode of a
\* present value (primitive, custom-decoded or struct target) the field
\* still refers to the same allocations as before, which now hold the
\* decoded value; new hops are allocated only when no prior allocation
\* exists.
C27_ChainReuse ==
    (Done /\ err = NoErr) =>
        \A i \in LogIndexes :
            (HeldChain(i) /\ (log[i].set \/ IsStructTarget(i))) =>
                ChainIds(TypeOf(log[i].path), Now(log[i].path).v)
                    = ChainIds(TypeOf(log[i].path), Then(log[i].path).v)

\* C27, for struct targets: parse recurses into the struct behind the
\* chain, and the field refers to the same allocations afterwards.
StructChainReused ==
    (Done /\ err = NoErr) =>
        \A i \in LogIndexes :
            (HeldChain(i) /\ IsStructTarget(i)) =>
                ChainIds(TypeOf(log[i].path), Now(log[i].path).v)
                    = ChainIds(TypeOf(log[i].path), Then(log[i].path).v)

\* A pointer to an integer held a chain, and a present value has put a
\* new chain into the field.
ChainReplacedReached ==
    /\ Done /\ err = NoErr /\ scenario.name = "pointer"
    /\ ~pre.f[1].nil
    /\ dest.f[1].id # pre.f[1].id
    /\ <<"P">> \in DOMAIN env

\* A custom-decoded target behind a chain has been decoded, and the field
\* refers to a new chain.
CustomChainReplacedReached ==
    /\ Done /\ err = NoErr /\ scenario.name = "custom"
    /\ \E i \in LogIndexes :
          /\ HeldChain(i) /\ log[i].set
          /\ ChainIds(TypeOf(log[i].path), Now(log[i].path).v)
                # ChainIds(TypeOf(log[i].path), Then(log[i].path).v)


----------------------------------------------------------------------------
(* One decode path for a field                                             *)

\* customTextUnmarshableMultifield with keys on its fields.
TKeyedMultifield == TStruct("customTextUnmarshableMultifield",
    << F(<<"a">>, TString), F(<<"b">>, TString) >>)

\* A field of every decode path: a custom-decoded string, a custom-decoded
\* struct with keyed fields by value and behind a pointer, an integer, a
\* slice and a struct.
DecodePathsType == TStruct("configuration",
    << F(<<"c">>, TCustomString),
       F(<<"m">>, TKeyedMultifield),
       F(<<"q">>, TPtr(TKeyedMultifield)),
       F(<<"p">>, TInt8),
       F(<<"l">>, TSlice(TInt)),
       F(<<"n">>, TStruct("inner", << F(<<"f">>, TString) >>)) >>)
DecodePathsDefault ==
    VStruct(<< VStr(<<"D">>),
               VStruct(<< VStr(<<"d">>), VStr(<<"x">>) >>),
               VPtr(1, VStruct(<< VStr(<<"d">>), VStr(<<"x">>) >>)),
               VInt(5),
               VSlice(<< VInt(9) >>),
               VStruct(<< VStr(<<"d">>) >>) >>)
DecodePathsScenario ==
    Scn("paths", DecodePathsType, {Zero(DecodePathsType), DecodePathsDefault},
        {<<"C">>, <<"M">>, <<"M","_","B">>, <<"Q">>, <<"Q","_","A">>, <<"P">>, <<"L">>,
         <<"N","_","F">>},
        {<<"a","b">>, <<"7">>, <<"1",",","2">>}, NoPrefix, {"default"})

InitDecodePaths ==
    /\ scenario = DecodePathsScenario
    /\ dest \in scenario.dests
    /\ pre = dest
    /\ env = EmptyEnv
    /\ prefix = <<>>
    /\ converter = "default"
    /\ phase = "setup"
    /\ err = NoErr
    /\ errAt = <<>>
    /\ log = <<>>
    /\ heap = Allocations(scenario.type, dest)
    /\ SelectedEnv
    /\ stack = <<>>

NextDecodePaths ==
    \/ \E key \in scenario.keys, value \in scenario.texts : Setenv(key, value)
    \/ Parse

SpecDecodePaths == InitDecodePaths /\ [][NextDecodePaths]_vars

DecodePathsDone == Done /\ scenario.name = "paths"

\* The lookups parse made for fields of the struct of the field of log[i]:
\* the trace of its recursion into that struct.
LookupsBelow(i) ==
    { j \in LogIndexes : Len(log[j].path) > Len(log[i].path) /\ IsPrefix(log[i].path, log[j].path) }

\* The raw text the field of log[i] was decoded from.
RawText(i) == IF log[i].key \in DOMAIN env THEN env[log[i].key] ELSE <<>>

\* The decode of the field of log[i] did not fail.
Decoded(i) == err = NoErr \/ errAt # log[i].path

\* C28: exactly one decode path is taken per field.  When the field's base
\* type has the text-decode capability, the custom decoder is invoked with
\* the raw text, and neither the generic parser nor the struct recursion
\* is applied to the field, also when the type is a struct with keyed
\* sub-fields; otherwise exactly one of primitive parsing, collection
\* parsing and struct recursion is applied.
C28_OneDecodePath ==
    DecodePathsDone =>
        \A i \in LogIndexes :
            LET t == TypeOf(log[i].path)
                base == extractNonPointerFieldType(t)
                now == Base(t, Now(log[i].path).v)
            IN
            /\ base = TCustomString =>
                  /\ LookupsBelow(i) = {}
                  /\ log[i].set => now.v = VStr(ToUpper(RawText(i)))
            /\ base = TKeyedMultifield =>
                  /\ LookupsBelow(i) = {}
                  /\ now.ok /\ now.v.f[2] = VStr(RawText(i))
            /\ base.k = "Int8" =>
                  /\ LookupsBelow(i) = {}
                  /\ (log[i].set /\ Decoded(i) /\ RawText(i) = <<"7">>) => now.v = VInt(7)
                  /\ (log[i].set /\ RawText(i) # <<"7">>) => (err = ErrParseValue /\ errAt = log[i].path)
            /\ base.k = "Slice" =>
                  /\ LookupsBelow(i) = {}
                  /\ (log[i].set /\ RawText(i) = <<"1",",","2">>) =>
                        now.v = VSlice(<< VInt(1), VInt(2) >>)
                  /\ (log[i].set /\ RawText(i) = <<"a","b">>) =>
                        (err = ErrParseValue /\ errAt = log[i].path)
            /\ base.name = "inner" =>
                  /\ Cardinality(LookupsBelow(i)) = 1
                  /\ now.v.f[1] = IF <<"N","_","F">> \in DOMAIN env
                                  THEN VStr(env[<<"N","_","F">>]) ELSE pre.f[6].f[1]

\* The custom-decoded string and the custom-decoded struct with keyed
\* fields have been decoded from a text, with values under the keys of the
\* struct's fields in the source.
C28_Witness ==
    /\ DecodePathsDone
    /\ err = NoErr
    /\ dest.f[1] = VStr(<<"A","B">>)
    /\ <<"M">> \in DOMAIN env /\ <<"M","_","B">> \in DOMAIN env
    /\ dest.f[2].f[2] = VStr(env[<<"M">>])

----------------------------------------------------------------------------
(* A source that holds none of the keys                                    *)

\* lookup reported every key parse asked for as absent.
EveryKeyAbsent == \A i \in LogIndexes : ~log[i].set

\* C29: if lookup reports every key as absent, the decode returns no error
\* and leaves the whole destination unchanged, for every schema of
\* supported types, fields declared as pointer to a primitive and struct-
\* and pointer-kinded fields with a custom decoder included; the custom
\* decoder is not invoked.
C29_AbsentKeysChangeNothing ==
    (Done /\ EveryKeyAbsent) => (err = NoErr /\ dest = pre)

\* C29 holds of the schemas without pointers to primitives and without
\* custom decoders.
AbsentKeysChangeNothingPlain ==
    scenario.name \in {"scalars", "nested", "nestedptr"} => C29_AbsentKeysChangeNothing

\* Every key is absent and the decode of a pointer to a primitive failed
\* on the empty text.
AbsentPointerFailedReached ==
    /\ Done /\ EveryKeyAbsent
    /\ scenario.name = "pointer"
    /\ err = ErrParseValue

\* Every key is absent and the custom decoder overwrote a default.
AbsentCustomInvokedReached ==
    /\ Done /\ EveryKeyAbsent
    /\ scenario.name = "custominside"
    /\ err = NoErr
    /\ dest # pre
    /\ dest.f[2] = VStruct(<< VStr(<<"d">>), VStr(<<>>) >>)

\* Every key is absent and the custom decoder of an integer behind a nil
\* pointer failed on the empty text.
AbsentCustomFailedReached ==
    /\ Done /\ EveryKeyAbsent
    /\ scenario.name = "custom"
    /\ err = ErrParseValue
    /\ errAt = <<3>>

----------------------------------------------------------------------------
(* A slice or map decoded over a default                                   *)

\* The slice the segments denote, in input order.
SliceOfSegments(segments) ==
    VSlice([i \in 1..Len(segments) |-> ElementChain(Elem, ElementOf(segments[i]).val)])

\* The map the entries denote: one entry per distinct key, a later entry of
\* a key replacing an earlier one.
RECURSIVE MapOfEntries(_, _)
MapOfEntries(entries, i) ==
    IF i = 0 THEN EmptyEntries
    ELSE SetMapIndex(MapOfEntries(entries, i - 1),
                     parseValue(V.key[1], KeyValueOf(entries[i])[1]).val,
                     parseValue(Elem, KeyValueOf(entries[i])[2]).val)

\* Every entry of the text holds exactly one unescaped '='.
EntriesWellFormed == \A i \in 1..Len(EntryTexts) : Len(KeyValueOf(EntryTexts[i])) = 2

\* The field holds what the elements `segments`, or the entries `entries`,
\* denote and nothing else.
HoldsExactly(segments, entries) ==
    IF V.k = "Slice" THEN Value = SliceOfSegments(segments)
    ELSE Value = VMap(MapOfEntries(entries, Len(entries)))

\* C30: a present value for a slice or map field replaces the field's whole
\* previous content: after a successful decode the field holds exactly the
\* elements of the text in input order (for a map one entry per distinct
\* key, the last occurrence of a repeated key winning), and no element or
\* entry of the default remains.
C30_CollectionReplaced ==
    (/\ ValuesDone /\ err = NoErr
     /\ V \in SliceTypes \cup MapTypes
     /\ V.k = "Map" => EntriesWellFormed)
    => HoldsExactly(SegmentsOf(Text, ","), EntryTexts)

\* The same for the texts that are not empty and do not end with a
\* delimiter.
CollectionReplacedPlain ==
    (Text # <<>> /\ Text[Len(Text)] # ",") => C30_CollectionReplaced

\* Whatever the text, the field holds no more than the elements that split
\* gave for it: nothing of the default remains.
CollectionReplacedBySplit ==
    (/\ ValuesDone /\ err = NoErr
     /\ V \in SliceTypes \cup MapTypes)
    => HoldsExactly(splitString(Text, ","), splitString(Text, ","))

\* A slice with a default holds the two elements of its text.
SliceReplacedReached ==
    /\ ValuesDone /\ err = NoErr
    /\ V = TSlice(TInt) /\ pre.f[1] = VSlice(<< VInt(9) >>)
    /\ Value = VSlice(<< VInt(1), VInt(2) >>)

\* A map with a default holds one entry for the key its text repeats, with
\* the later value.
MapLastKeyWinsReached ==
    /\ ValuesDone /\ err = NoErr
    /\ V = TMap(TInt, TInt) /\ pre.f[1] # Zero(V)
    /\ Text = <<"1","=","1",",","1","=","2">>
    /\ Value = VMap(SetMapIndex(EmptyEntries, VInt(1), VInt(2)))

\* A slice of strings lost the empty element after the last delimiter.
SliceElementLostReached ==
    /\ ValuesDone /\ err = NoErr
    /\ V = TSlice(TString)
    /\ Text = <<"a",",","b",",">>
    /\ Value = VSlice(<< VStr(<<"a">>), VStr(<<"b">>) >>)

\* A slice of strings decoded from the empty text holds no element.
SliceOfEmptyTextReached ==
    /\ ValuesDone /\ err = NoErr
    /\ V = TSlice(TString) /\ pre.f[1] # Zero(V)
    /\ Text = <<>>
    /\ Value = VSlice(<<>>)

====
